---------------------------- MODULE Spec2Model ----------------------------
(***************************************************************************)
(* A state-machine model of tinygpusim's dispatch pipeline:                *)
(*   CommandProcessor -> {DMAEngine | AsyncComputeEngine}                  *)
(*   -> ShaderPipeInput -> ComputeUnit / InstructionSequencer.             *)
(*                                                                         *)
(* Every action is one public call made by a driver of the simulator.  A   *)
(* Python exception raised inside a call propagates to the driver; the     *)
(* assignments made before the raise stay in effect.  `outcome` records    *)
(* what the driver observed of the last call: the operation, its target,   *)
(* the value returned and the exception raised.                            *)
(*                                                                         *)
(* Python objects are records.  A record's TLA+ equality is the object's   *)
(* identity; PyEq is Python's ==, which list.__contains__ and list.remove  *)
(* use.                                                                    *)
(***************************************************************************)
EXTENDS Integers, Sequences, FiniteSets, TLC

VARIABLES
    \* ComputeUnit (one entry per compute unit, in shader-array scan order)
    wavefront_slots, used_sgpr, used_vgpr, used_lds,
    max_wavefront_slots, max_sgpr, max_vgpr, max_lds,
    \* InstructionSequencer of each compute unit
    wavefront_pools, instruction_buffers, program_counters,
    executing_wavefronts, current_pool, execution_units,
    \* ComputeUnit: cycles completed
    cycle_count,
    \* InstructionSequencer: whether an L1 instruction cache and an L2 cache
    \* are attached, the instruction-fetch counters, and what the probes of
    \* the last _fetch_from_memory_hierarchy call found
    l1icache, l2cache, l1i_accesses, l1i_misses, l2_accesses, l2_misses,
    probes,
    \* a SIMDUnit: its fields, and for the instruction started last the
    \* returns of the execute_cycle calls and the start_execution calls
    \* refused since
    simd, simd_trace,
    \* ShaderPipeInput
    spi_workgroup,
    \* AsyncComputeEngine (one entry per engine id)
    ace_kernel, ace_available, workgroup_queue, workgroup_queue_state,
    active_kernel_workgroups, max_active_workgroups,
    \* DMAEngine (one entry per engine id)
    dma_kernel, dma_available,
    \* DRAMController: storage, and the bytes the last load returned
    dram_storage, dram_loaded,
    \* TextureAddressing.stats; the addresses and sizes the driver holds
    \* for its vector memory operation; the list the last
    \* coalesce_memory_requests or vector_load call returned
    ta_stats, ta_request, ta_returned,
    \* L2TLB: entries (in insertion order) and counters; the pages inserted
    \* since construction or the last flush; the tuple the last lookup
    \* returned
    tlb_entries, access_count, hit_count, miss_count, tlb_inserted,
    tlb_returned,
    \* CommandProcessor
    available_dma, available_ace, command_queue,
    \* object allocation: the number of Workgroup objects created so far
    next_wg,
    \* what the driver observed of the last call
    outcome

ledgerVars == <<wavefront_slots, used_sgpr, used_vgpr, used_lds>>
limitVars  == <<max_wavefront_slots, max_sgpr, max_vgpr, max_lds>>
sqVars     == <<wavefront_pools, instruction_buffers, program_counters,
                executing_wavefronts>>
hierVars   == <<l1icache, l2cache, l1i_accesses, l1i_misses, l2_accesses,
                l2_misses, probes>>
simdVars   == <<simd, simd_trace>>
issueVars  == <<current_pool, execution_units, cycle_count, hierVars,
                simdVars>>
cuVars     == <<ledgerVars, limitVars, sqVars, issueVars>>
aceVars    == <<ace_kernel, ace_available, workgroup_queue,
                workgroup_queue_state, active_kernel_workgroups,
                max_active_workgroups>>
dramVars   == <<dram_storage, dram_loaded>>
taVars     == <<ta_stats, ta_request, ta_returned>>
tlbVars    == <<tlb_entries, access_count, hit_count, miss_count,
                tlb_inserted, tlb_returned>>
memVars    == <<dramVars, taVars, tlbVars>>
dmaVars    == <<dma_kernel, dma_available, memVars>>
cpVars     == <<available_dma, available_ace, command_queue>>
vars       == <<cuVars, spi_workgroup, aceVars, dmaVars, cpVars, next_wg,
                outcome>>

---------------------------------------------------------------------------
(* Bounds of the model *)

\* compute units of the shader engine, flattened in scan order
NumCU == 2
\* distinct kernels a driver launches
NumKernels == 2
\* Wavefront objects per kernel that a driver of a bare ComputeUnit holds
NumHarnessWavefronts == 2
\* async compute engines handed to the CommandProcessor
NumACE == 2
\* max_active_workgroups as configured by the driver of a dispatch run
ConfiguredWorkgroups == 3
\* Workgroup objects created in one run
MaxWorkgroups == 6
\* longest availability pool explored
MaxPool == 3
\* longest command queue explored
MaxQueue == 1
\* kernel_launch commands dispatched by the CommandProcessor in one run
MaxLaunches == 3
\* execute_cycle calls counted on one compute unit
MaxCycles == 5
\* requests in a batch handed to the texture-addressing block
MaxBatch == 3
\* requests coalesced by one TextureAddressing object in one run
MaxRequests == 5
\* L2TLB: size and page_size as constructed by the driver
TlbSize == 2
PageSize == 2
\* insert calls since construction or the last flush, and lookup calls
MaxInserts == 3
MaxLookups == 2
MaxFetches == 5
\* execute_cycle calls made on one SIMD unit
MaxSimdCycles == 9
\* bytes of the CPUMemory handed to the DMA engines
CpuSize == 32
\* program counter up to which instructions are fetched
MaxPc == 8
\* capacity the DRAMController is constructed with
DramCapacity == 8
\* longest byte string the driver loads or stores
MaxData == 2

---------------------------------------------------------------------------
(* Program constants *)

DefaultMaxWavefrontSlots == 40
DefaultMaxSgpr == 800
DefaultMaxVgpr == 256
DefaultMaxLds == 64 * 1024
sgpr_needed == 32
vgpr_needed == 64
lds_needed == 2048
num_pools == 4
slots_per_pool == DefaultMaxWavefrontSlots \div num_pools
wavefront_per_workgroup == 4
GridWorkgroups == 100
DefaultMaxActiveWorkgroups == 64
NumDMA == 2

CUs     == 0 .. NumCU - 1
PoolIdx == 0 .. num_pools - 1
ACEs    == 0 .. NumACE - 1
DMAs    == 0 .. NumDMA - 1

Min(S) == CHOOSE x \in S : \A y \in S : x <= y

---------------------------------------------------------------------------
(* Objects *)

NoExc == "none"

\* None, where a command / kernel object is expected
None == [type |-> "None", name |-> "", src_addr |-> 0, dst_addr |-> 0,
         size |-> 0]

KernelNames == {"k1", "k2", "k3"}
KernelName(i) == IF i = 1 THEN "k1" ELSE IF i = 2 THEN "k2" ELSE "k3"

\* a kernel_launch command object: the attributes the code reads are
\* type (CommandProcessor.process_command) and name (AsyncComputeEngine)
KernelLaunch(i) == [type |-> "kernel_launch", name |-> KernelName(i),
                    src_addr |-> 0, dst_addr |-> 0, size |-> 0]
Kernels == {KernelLaunch(i) : i \in 1 .. NumKernels}

\* a memory_copy command object: the attributes the code reads are type
\* (CommandProcessor.process_command) and src_addr, dst_addr, size
\* (DMAEngine.demand)
MemoryCopy(src, dst, size) ==
    [type |-> "memory_copy", name |-> "", src_addr |-> src,
     dst_addr |-> dst, size |-> size]
\* a copy inside the CPU memory and one that reads past its end
MemoryCopies == {MemoryCopy(0, 0, 16), MemoryCopy(0, 0, CpuSize + 16)}

\* a command whose type is neither memory_copy nor kernel_launch
UnknownCommand == [type |-> "unknown", name |-> "", src_addr |-> 0,
                   dst_addr |-> 0, size |-> 0]

Commands == Kernels \cup MemoryCopies \cup {UnknownCommand}

\* Workgroup(kernel): kernel is the name of the kernel object referred to,
\* id stands for the Workgroup object's identity
Workgroup(k, n) == [kernel |-> k.name, id |-> n]
NoWorkgroup == [kernel |-> "", id |-> -1]

\* Wavefront(kernel, workgroup) for workgroup g: wg is the identity of the
\* workgroup referred to, idx stands for the Wavefront object's identity
\* among the wavefronts created for that workgroup
Wavefront(g, i) == [kernel |-> g.kernel, wg |-> g.id, idx |-> i]

\* The dataclass-generated __eq__ of Wavefront compares (kernel, workgroup);
\* Workgroup's compares (kernel,): two wavefronts are == exactly when their
\* kernels are, whatever workgroup and whichever object they are.
PyEq(w1, w2) == w1.kernel = w2.kernel

\* @dataclass with eq and without frozen sets __hash__ to None: a Wavefront
\* cannot be a dict key.
WavefrontHashable == FALSE

\* compute_unit.py imports Deque from typing and nothing from collections:
\* the name deque that add_wavefront evaluates is unbound.
DequeIsBound == FALSE

\* x in lst
PyIn(w, lst) == \E i \in 1 .. Len(lst) : PyEq(lst[i], w)

\* lst.remove(x): drops the first element == x (called only when x in lst)
PyRemove(lst, w) ==
    LET i == Min({j \in 1 .. Len(lst) : PyEq(lst[j], w)})
    IN  SubSeq(lst, 1, i - 1) \o SubSeq(lst, i + 1, Len(lst))

\* what the driver observed
Outcome(op, target, ret, exc) ==
    [op |-> op, target |-> target, ret |-> ret, exc |-> exc]

---------------------------------------------------------------------------
(* ComputeUnit and its InstructionSequencer, as functions of one unit's    *)
(* state, so that a caller's loop over several calls composes them.        *)

\* the fields of compute unit c
CU(c) == [slots |-> wavefront_slots[c],
          sgpr |-> used_sgpr[c], vgpr |-> used_vgpr[c], lds |-> used_lds[c],
          max_slots |-> max_wavefront_slots[c], max_sgpr |-> max_sgpr[c],
          max_vgpr |-> max_vgpr[c], max_lds |-> max_lds[c],
          pools |-> wavefront_pools[c], bufs |-> instruction_buffers[c],
          pcs |-> program_counters[c], exe |-> executing_wavefronts[c]]

\* a call's effect: the unit's new state, the value returned, the exception
Result(u, ret, exc) == [cu |-> u, ret |-> ret, exc |-> exc]

\* del d[k]
DictDel(d, k) == [x \in DOMAIN d \ {k} |-> d[x]]

\* has_resources_for_wavefront without the vector-register test
has_resources_ignoring_vgpr(u) ==
    LET has_slot == Len(u.slots) < u.max_slots
        has_sgpr == u.sgpr + sgpr_needed <= u.max_sgpr
        has_lds  == u.lds + lds_needed <= u.max_lds
    IN  has_slot /\ has_sgpr /\ has_lds

\* ComputeUnit.has_resources_for_wavefront
has_resources_for_wavefront(u) ==
    LET has_slot == Len(u.slots) < u.max_slots
        has_sgpr == u.sgpr + sgpr_needed <= u.max_sgpr
        has_vgpr == u.vgpr + vgpr_needed <= u.max_vgpr
        has_lds  == u.lds + lds_needed <= u.max_lds
    IN  has_slot /\ has_sgpr /\ has_vgpr /\ has_lds

\* InstructionSequencer.add_wavefront
add_wavefront(u, w) ==
    LET free == {p \in PoolIdx : Len(u.pools[p]) < slots_per_pool} IN
    IF free = {} THEN Result(u, "False", NoExc)
    ELSE
      LET pool_idx == Min(free)
          u1 == [u EXCEPT !.pools[pool_idx] = Append(@, w)]
      IN  IF ~DequeIsBound THEN Result(u1, "raised", "NameError")
          ELSE IF ~WavefrontHashable THEN Result(u1, "raised", "TypeError")
          ELSE Result([u1 EXCEPT !.bufs = (w :> <<>>) @@ @,
                                 !.pcs  = (w :> 0) @@ @,
                                 !.exe  = (w :> FALSE) @@ @],
                      "True", NoExc)

\* InstructionSequencer.remove_wavefront
remove_wavefront(u, w) ==
    LET holding == {p \in PoolIdx : PyIn(w, u.pools[p])} IN
    IF holding = {} THEN Result(u, "False", NoExc)
    ELSE
      LET pool_idx == Min(holding)
          u1 == [u EXCEPT !.pools[pool_idx] = PyRemove(@, w)]
      IN  IF ~WavefrontHashable THEN Result(u1, "raised", "TypeError")
          ELSE IF w \notin DOMAIN u1.bufs THEN Result(u1, "raised", "KeyError")
          ELSE Result([u1 EXCEPT !.bufs = DictDel(@, w),
                                 !.pcs  = DictDel(@, w),
                                 !.exe  = DictDel(@, w)],
                      "True", NoExc)

\* allocate_resources trusting the caller's earlier check
allocate_resources_unchecked(u, w) ==
    LET u1 == [u EXCEPT !.slots = Append(@, w),
                        !.sgpr  = @ + 32,
                        !.vgpr  = @ + 64,
                        !.lds   = @ + 2048]
        added == add_wavefront(u1, w)
    IN  IF added.exc # NoExc THEN added
        ELSE Result(added.cu, "True", NoExc)

\* ComputeUnit.allocate_resources
allocate_resources(u, w) ==
    IF ~has_resources_for_wavefront(u) THEN Result(u, "False", NoExc)
    ELSE
      LET u1 == [u EXCEPT !.slots = Append(@, w),
                          !.sgpr  = @ + 32,
                          !.vgpr  = @ + 64,
                          !.lds   = @ + 2048]
          added == add_wavefront(u1, w)
      IN  IF added.exc # NoExc THEN added
          ELSE Result(added.cu, "True", NoExc)

\* free_resources giving back no local data share
free_resources_keeping_lds(u, w) ==
    IF ~PyIn(w, u.slots) THEN Result(u, "None", NoExc)
    ELSE
      LET u1 == [u EXCEPT !.slots = PyRemove(@, w),
                          !.sgpr  = @ - 32,
                          !.vgpr  = @ - 64]
          removed == remove_wavefront(u1, w)
      IN  IF removed.exc # NoExc THEN removed
          ELSE Result(removed.cu, "None", NoExc)

\* ComputeUnit.free_resources
free_resources(u, w) ==
    IF ~PyIn(w, u.slots) THEN Result(u, "None", NoExc)
    ELSE
      LET u1 == [u EXCEPT !.slots = PyRemove(@, w),
                          !.sgpr  = @ - 32,
                          !.vgpr  = @ - 64,
                          !.lds   = @ - 2048]
          removed == remove_wavefront(u1, w)
      IN  IF removed.exc # NoExc THEN removed
          ELSE Result(removed.cu, "None", NoExc)

\* compute unit c takes the state u; the limits are never assigned
SetCU(c, u) ==
    /\ wavefront_slots' = [wavefront_slots EXCEPT ![c] = u.slots]
    /\ used_sgpr' = [used_sgpr EXCEPT ![c] = u.sgpr]
    /\ used_vgpr' = [used_vgpr EXCEPT ![c] = u.vgpr]
    /\ used_lds'  = [used_lds EXCEPT ![c] = u.lds]
    /\ wavefront_pools' = [wavefront_pools EXCEPT ![c] = u.pools]
    /\ instruction_buffers' = [instruction_buffers EXCEPT ![c] = u.bufs]
    /\ program_counters' = [program_counters EXCEPT ![c] = u.pcs]
    /\ executing_wavefronts' = [executing_wavefronts EXCEPT ![c] = u.exe]
    /\ UNCHANGED <<limitVars, issueVars>>

\* the Wavefront objects a driver of a bare compute unit holds: for each
\* kernel, wavefronts of one workgroup (id 0) of that kernel
HarnessWavefronts ==
    {Wavefront(Workgroup(k, 0), i) :
        k \in Kernels, i \in 1 .. NumHarnessWavefronts}

\* a driver calls cu.allocate_resources(w)
AllocateResources(c, w) ==
    LET r == allocate_resources(CU(c), w) IN
    /\ SetCU(c, r.cu)
    /\ outcome' = Outcome("allocate_resources", c, r.ret, r.exc)
    /\ UNCHANGED <<spi_workgroup, aceVars, dmaVars, cpVars, next_wg>>

\* a driver calls cu.free_resources(w)
FreeResources(c, w) ==
    LET r == free_resources(CU(c), w) IN
    /\ SetCU(c, r.cu)
    /\ outcome' = Outcome("free_resources", c, r.ret, r.exc)
    /\ UNCHANGED <<spi_workgroup, aceVars, dmaVars, cpVars, next_wg>>

---------------------------------------------------------------------------
(* InstructionSequencer: fetch and issue, as functions of one sequencer's  *)
(* state.  The instruction f"INSTR_{pc}" is represented by pc.             *)

\* the keys of execution_units
UnitTypes == {"scalar", "branch", "vector", "vector_memory", "lds"}

\* None in a slot of execution_units
NoIssue == <<>>

\* the fields of the sequencer of compute unit c
SQ(c) == [pools |-> wavefront_pools[c], bufs |-> instruction_buffers[c],
          pcs |-> program_counters[c], exe |-> executing_wavefronts[c],
          cur |-> current_pool[c], units |-> execution_units[c],
          l1icache |-> l1icache[c], l2cache |-> l2cache[c],
          l1i_accesses |-> l1i_accesses[c], l1i_misses |-> l1i_misses[c],
          l2_accesses |-> l2_accesses[c], l2_misses |-> l2_misses[c],
          probes |-> probes]

\* the sequencer of compute unit c takes the state q
SetSequencer(c, q) ==
    /\ wavefront_pools' = [wavefront_pools EXCEPT ![c] = q.pools]
    /\ instruction_buffers' = [instruction_buffers EXCEPT ![c] = q.bufs]
    /\ program_counters' = [program_counters EXCEPT ![c] = q.pcs]
    /\ executing_wavefronts' = [executing_wavefronts EXCEPT ![c] = q.exe]
    /\ current_pool' = [current_pool EXCEPT ![c] = q.cur]
    /\ execution_units' = [execution_units EXCEPT ![c] = q.units]
    /\ l1i_accesses' = [l1i_accesses EXCEPT ![c] = q.l1i_accesses]
    /\ l1i_misses' = [l1i_misses EXCEPT ![c] = q.l1i_misses]
    /\ l2_accesses' = [l2_accesses EXCEPT ![c] = q.l2_accesses]
    /\ l2_misses' = [l2_misses EXCEPT ![c] = q.l2_misses]
    /\ probes' = q.probes
    /\ UNCHANGED <<l1icache, l2cache, simdVars>>

\* the same, in a call that leaves the rest of the compute unit alone
SetSQ(c, q) ==
    /\ SetSequencer(c, q)
    /\ UNCHANGED <<ledgerVars, limitVars, cycle_count>>

\* what a probe of a cache level found
NotProbed == "none"
Probe(hit) == IF hit THEN "hit" ELSE "miss"

\* InstructionSequencer._fetch_from_memory_hierarchy: the sequencer
\* afterwards; l1_hit and l2_hit are what the random draws of
\* _try_fetch_from_l1icache and _try_fetch_from_l2cache give when they are
\* made.  The instruction returned is that of pc from whichever level.
fetch_from_memory_hierarchy(q, l1_hit, l2_hit) ==
    LET from_l1 == q.l1icache /\ l1_hit
        try_l2 == ~from_l1 /\ q.l2cache
        from_l2 == try_l2 /\ l2_hit
    IN  [q EXCEPT
           !.l1i_accesses = @ + 1,
           !.l1i_misses = IF try_l2 THEN @ + 1 ELSE @,
           !.l2_accesses = IF try_l2 THEN @ + 1 ELSE @,
           !.l2_misses = IF ~from_l1 /\ ~from_l2 /\ q.l2cache
                         THEN @ + 1 ELSE @,
           !.probes = [l1 |-> IF q.l1icache THEN Probe(l1_hit) ELSE NotProbed,
                       l2 |-> IF try_l2 THEN Probe(l2_hit) ELSE NotProbed]]

\* the loop of fetch_instructions: the n-th to the 4th instruction fetched
\* for the wavefront; draws[n] are the random draws of the n-th fetch
RECURSIVE fetch_each(_, _, _, _)
fetch_each(q, wavefront, n, draws) ==
    IF n > 4 THEN q
    ELSE LET pc == q.pcs[wavefront]
             q1 == fetch_from_memory_hierarchy(q, draws[n][1], draws[n][2])
         IN  fetch_each([q1 EXCEPT !.bufs[wavefront] = Append(@, pc),
                                   !.pcs[wavefront] = pc + 1],
                        wavefront, n + 1, draws)

\* InstructionSequencer.fetch_instructions: the sequencer afterwards and
\* the exception raised.  The first lookup keyed by the wavefront hashes it.
fetch_instructions(q, draws) ==
    LET nonempty == {p \in PoolIdx : q.pools[p] # <<>>} IN
    IF nonempty = {} THEN [sq |-> q, exc |-> NoExc]
    ELSE
      LET wavefront == q.pools[Min(nonempty)][1] IN
      IF ~WavefrontHashable THEN [sq |-> q, exc |-> "TypeError"]
      ELSE IF wavefront \notin DOMAIN q.pcs THEN [sq |-> q, exc |-> "KeyError"]
      ELSE [sq |-> fetch_each(q, wavefront, 1, draws), exc |-> NoExc]

\* the loop of issue_instructions over the wavefronts of the selected pool,
\* from the i-th on; pick[i] is what _get_execution_unit_type returns for
\* the i-th wavefront
RECURSIVE issue_each(_, _, _, _)
issue_each(q, pool, i, pick) ==
    IF i > Len(pool) THEN [sq |-> q, exc |-> NoExc]
    ELSE
      LET wavefront == pool[i] IN
      IF ~WavefrontHashable THEN [sq |-> q, exc |-> "TypeError"]
      ELSE IF wavefront \notin DOMAIN q.exe THEN [sq |-> q, exc |-> "KeyError"]
      ELSE IF q.exe[wavefront] THEN issue_each(q, pool, i + 1, pick)
      ELSE IF wavefront \notin DOMAIN q.bufs
      THEN [sq |-> q, exc |-> "KeyError"]
      ELSE IF q.bufs[wavefront] = <<>> THEN issue_each(q, pool, i + 1, pick)
      ELSE
        LET instruction == Head(q.bufs[wavefront])
            unit_type == pick[i]
        IN  IF q.units[unit_type] = NoIssue
            THEN issue_each(
                     [q EXCEPT !.units[unit_type] = <<wavefront, instruction>>,
                               !.bufs[wavefront] = Tail(@),
                               !.exe[wavefront] = TRUE],
                     pool, i + 1, pick)
            ELSE issue_each(q, pool, i + 1, pick)

\* InstructionSequencer.issue_instructions: the sequencer afterwards and the
\* exception raised
issue_instructions(q, pick) ==
    LET q0 == [q EXCEPT !.units = [t \in UnitTypes |-> NoIssue]]
        r == issue_each(q0, q0.pools[q0.cur], 1, pick)
    IN  IF r.exc # NoExc THEN r
        ELSE [sq |-> [r.sq EXCEPT !.cur = (@ + 1) % num_pools],
              exc |-> NoExc]

\* the values random.choice can return during one issue_instructions call:
\* one per wavefront of the selected pool; the choice is reached for no
\* wavefront when the lookup before it raises
Picks(q) ==
    IF WavefrontHashable
    THEN [1 .. Len(q.pools[q.cur]) -> UnitTypes]
    ELSE {[i \in 1 .. Len(q.pools[q.cur]) |-> "scalar"]}

\* the random draws of the four fetches of one fetch_instructions call;
\* none is made when the lookup before the first fetch raises
Draws ==
    IF WavefrontHashable
    THEN [1 .. 4 -> BOOLEAN \X BOOLEAN]
    ELSE {[n \in 1 .. 4 |-> <<TRUE, TRUE>>]}

\* a driver calls cu.instruction_sequencer.fetch_instructions()
FetchInstructions(c) ==
    /\ \A w \in DOMAIN program_counters[c] :
           program_counters[c][w] + 4 <= MaxPc
    /\ \E draws \in Draws :
           LET r == fetch_instructions(SQ(c), draws)
           IN  /\ SetSQ(c, r.sq)
               /\ outcome' = Outcome("fetch_instructions", c,
                                     IF r.exc = NoExc THEN "None"
                                     ELSE "raised",
                                     r.exc)
    /\ UNCHANGED <<spi_workgroup, aceVars, dmaVars, cpVars, next_wg>>

\* a driver calls cu.instruction_sequencer.issue_instructions()
IssueInstructions(c) ==
    /\ \E pick \in Picks(SQ(c)) :
           LET r == issue_instructions(SQ(c), pick)
           IN  /\ SetSQ(c, r.sq)
               /\ outcome' = Outcome("issue_instructions", c,
                                     IF r.exc = NoExc THEN "None"
                                     ELSE "raised",
                                     r.exc)
    /\ UNCHANGED <<spi_workgroup, aceVars, dmaVars, cpVars, next_wg>>

\* InstructionSequencer.complete_execution
complete_execution(q, wavefront) ==
    IF wavefront \in DOMAIN q.exe
    THEN [q EXCEPT !.exe[wavefront] = FALSE]
    ELSE q

\* the loop of execute_cycle over executing_wavefronts.items()
RECURSIVE complete_all(_, _)
complete_all(q, todo) ==
    IF todo = {} THEN q
    ELSE LET wavefront == CHOOSE w \in todo : TRUE
         IN  complete_all(IF q.exe[wavefront]
                          THEN complete_execution(q, wavefront)
                          ELSE q,
                          todo \ {wavefront})

\* ComputeUnit.execute_cycle: the sequencer afterwards, whether the cycle
\* was counted, and the exception raised
execute_cycle(q, draws, pick) ==
    LET f == fetch_instructions(q, draws) IN
    IF f.exc # NoExc THEN [sq |-> f.sq, counted |-> FALSE, exc |-> f.exc]
    ELSE
      LET i == issue_instructions(f.sq, pick) IN
      IF i.exc # NoExc THEN [sq |-> i.sq, counted |-> FALSE, exc |-> i.exc]
      ELSE [sq |-> complete_all(i.sq, DOMAIN i.sq.exe), counted |-> TRUE,
            exc |-> NoExc]

\* a driver calls cu.execute_cycle()
ExecuteCycle(c) ==
    /\ cycle_count[c] < MaxCycles
    /\ \A w \in DOMAIN program_counters[c] :
           program_counters[c][w] + 4 <= MaxPc
    /\ \E draws \in Draws : \E pick \in Picks(SQ(c)) :
           LET r == execute_cycle(SQ(c), draws, pick)
           IN  /\ SetSequencer(c, r.sq)
               /\ cycle_count' =
                      [cycle_count EXCEPT ![c] =
                          IF r.counted THEN @ + 1 ELSE @]
               /\ outcome' = Outcome("execute_cycle", c,
                                     IF r.exc = NoExc THEN "None"
                                     ELSE "raised",
                                     r.exc)
    /\ UNCHANGED <<ledgerVars, limitVars, spi_workgroup, aceVars, dmaVars,
                   cpVars, next_wg>>

---------------------------------------------------------------------------
(* ShaderPipeInput *)

\* the loop of break_workgroup_into_wavefronts over the wavefronts created
\* for workgroup g, from the i-th on: allocate_resources on the target unit,
\* its return value dropped, an exception ending the loop
RECURSIVE allocate_each(_, _, _)
allocate_each(u, g, i) ==
    IF i > wavefront_per_workgroup THEN Result(u, "None", NoExc)
    ELSE LET r == allocate_resources(u, Wavefront(g, i))
         IN  IF r.exc # NoExc THEN r ELSE allocate_each(r.cu, g, i + 1)

\* the unit break_workgroup_into_wavefronts picks: available_cus[0], the
\* first unit of the first shader array, whatever its resources
target_cu == Min(CUs)

\* ShaderPipeInput.get_workgroup, as its effect on the target unit
get_workgroup(g) ==
    LET r == allocate_each(CU(target_cu), g, 1)
    IN  IF r.exc # NoExc THEN r ELSE Result(r.cu, "True", NoExc)

\* a driver hands a workgroup of its own to spi.get_workgroup
GetWorkgroup(k) ==
    /\ next_wg <= MaxWorkgroups
    /\ LET g == Workgroup(k, next_wg)
           r == get_workgroup(g)
       IN  /\ spi_workgroup' = g
           /\ SetCU(target_cu, r.cu)
           /\ outcome' = Outcome("get_workgroup", target_cu, r.ret, r.exc)
    /\ next_wg' = next_wg + 1
    /\ UNCHANGED <<aceVars, dmaVars, cpVars>>

---------------------------------------------------------------------------
(* AsyncComputeEngine, as functions of one engine's state *)

\* the fields of engine a
ACE(a) == [kernel |-> ace_kernel[a], available |-> ace_available[a],
           queue |-> workgroup_queue[a], state |-> workgroup_queue_state[a],
           active |-> active_kernel_workgroups[a],
           limit |-> max_active_workgroups[a]]

SetACE(a, e) ==
    /\ ace_kernel' = [ace_kernel EXCEPT ![a] = e.kernel]
    /\ ace_available' = [ace_available EXCEPT ![a] = e.available]
    /\ workgroup_queue' = [workgroup_queue EXCEPT ![a] = e.queue]
    /\ workgroup_queue_state' = [workgroup_queue_state EXCEPT ![a] = e.state]
    /\ active_kernel_workgroups' =
           [active_kernel_workgroups EXCEPT ![a] = e.active]
    /\ UNCHANGED max_active_workgroups

\* d[k] = v
DictSet(d, k, v) == (k :> v) @@ d

\* AsyncComputeEngine.update_available
update_available(e) == [e EXCEPT !.available = (e.kernel = None)]

\* AsyncComputeEngine.update_workgroup_queue_state
update_workgroup_queue_state(e) ==
    [e EXCEPT !.state = IF Len(e.queue) = 0 THEN "empty" ELSE "active"]

\* AsyncComputeEngine.update_state
update_state(e) == update_workgroup_queue_state(update_available(e))

\* the number of workgroups break_kernel creates
workgroup_num(e) == IF GridWorkgroups <= e.limit THEN GridWorkgroups
                    ELSE e.limit

\* AsyncComputeEngine.break_kernel with a kernel held; the Workgroup objects
\* created are the next workgroup_num identities, from first on
break_kernel(e, first) ==
    LET n == workgroup_num(e)
        workgroups == [i \in 1 .. n |-> Workgroup(e.kernel, first + i - 1)]
    IN  [e EXCEPT !.queue = @ \o workgroups,
                  !.active = DictSet(@, e.kernel.name, Len(workgroups))]

\* break_kernel without its test for a held kernel: the workgroups are
\* created and queued, and reading self.kernel.name then fails
break_kernel_unchecked(e, first) ==
    IF e.kernel = None
    THEN [ace |-> [e EXCEPT !.queue = @ \o [i \in 1 .. workgroup_num(e) |->
                                               Workgroup(None, first + i - 1)]],
          exc |-> "AttributeError"]
    ELSE [ace |-> break_kernel(e, first), exc |-> NoExc]

\* AsyncComputeEngine.break_kernel called from outside receive_kernel: the
\* engine afterwards and the exception raised
break_kernel_call(e, first) ==
    IF e.kernel = None
    THEN [ace |-> e, exc |-> "ValueError"]
    ELSE [ace |-> break_kernel(e, first), exc |-> NoExc]

\* AsyncComputeEngine.receive_kernel
receive_kernel(e, kernel, first) ==
    LET e1 == [e EXCEPT !.kernel = kernel]
        e2 == IF kernel.name \notin DOMAIN e1.active
              THEN [e1 EXCEPT !.active = DictSet(@, kernel.name, 0)]
              ELSE e1
    IN  update_state(break_kernel(e2, first))

\* AsyncComputeEngine.finish_kernel
finish_kernel(e) ==
    LET e1 == IF e.kernel # None /\ e.kernel.name \in DOMAIN e.active
              THEN [e EXCEPT !.active = DictDel(@, e.kernel.name)]
              ELSE e
    IN  update_state([e1 EXCEPT !.kernel = None])

\* the same part without the call of finish_kernel on an emptied queue
after_hand_off_unfinished(e) ==
    IF e.kernel # None /\ e.kernel.name \in DOMAIN e.active
    THEN [e EXCEPT !.active[e.kernel.name] = @ - 1]
    ELSE e

\* the part of pass_workgroup after get_workgroup returned True, on the
\* engine whose queue has already lost its head
after_hand_off(e) ==
    LET e1 == IF e.kernel # None /\ e.kernel.name \in DOMAIN e.active
              THEN [e EXCEPT !.active[e.kernel.name] = @ - 1]
              ELSE e
    IN  IF Len(e1.queue) = 0 THEN finish_kernel(e1) ELSE e1

\* a driver calls ace.receive_kernel(kernel)
ReceiveKernel(a, k) ==
    /\ next_wg + workgroup_num(ACE(a)) - 1 <= MaxWorkgroups
    /\ SetACE(a, receive_kernel(ACE(a), k, next_wg))
    /\ next_wg' = next_wg + workgroup_num(ACE(a))
    /\ outcome' = Outcome("receive_kernel", a, "None", NoExc)
    /\ UNCHANGED <<cuVars, spi_workgroup, dmaVars, cpVars>>

\* a driver calls ace.break_kernel()
BreakKernel(a) ==
    /\ ace_kernel[a] # None
           => next_wg + workgroup_num(ACE(a)) - 1 <= MaxWorkgroups
    /\ LET r == break_kernel_call(ACE(a), next_wg)
       IN  /\ SetACE(a, r.ace)
           /\ next_wg' = next_wg + Len(r.ace.queue) - Len(workgroup_queue[a])
           /\ outcome' = Outcome("break_kernel", a,
                                 IF r.exc = NoExc THEN "list" ELSE "raised",
                                 r.exc)
    /\ UNCHANGED <<cuVars, spi_workgroup, dmaVars, cpVars>>

\* a driver calls ace.pass_workgroup(spi): not active
PassWorkgroupIdle(a) ==
    /\ workgroup_queue_state[a] # "active"
    /\ outcome' = Outcome("pass_workgroup", a, "None", NoExc)
    /\ UNCHANGED <<cuVars, spi_workgroup, aceVars, dmaVars, cpVars, next_wg>>

\* a driver calls ace.pass_workgroup(spi): active, popleft of an empty deque
PassWorkgroupEmpty(a) ==
    /\ workgroup_queue_state[a] = "active"
    /\ workgroup_queue[a] = <<>>
    /\ outcome' = Outcome("pass_workgroup", a, "raised", "IndexError")
    /\ UNCHANGED <<cuVars, spi_workgroup, aceVars, dmaVars, cpVars, next_wg>>

\* a driver calls ace.pass_workgroup(spi): active, the head is handed off
PassWorkgroupHandOff(a) ==
    /\ workgroup_queue_state[a] = "active"
    /\ workgroup_queue[a] # <<>>
    /\ LET workgroup == Head(workgroup_queue[a])
           e == [ACE(a) EXCEPT !.queue = Tail(@)]
           r == get_workgroup(workgroup)
       IN  /\ spi_workgroup' = workgroup
           /\ SetCU(target_cu, r.cu)
           /\ IF r.exc # NoExc
              THEN /\ SetACE(a, e)
                   /\ outcome' = Outcome("pass_workgroup", a, "raised", r.exc)
              ELSE /\ SetACE(a, after_hand_off(e))
                   /\ outcome' = Outcome("pass_workgroup", a, "None", NoExc)
    /\ UNCHANGED <<dmaVars, cpVars, next_wg>>

PassWorkgroup(a) ==
    \/ PassWorkgroupIdle(a)
    \/ PassWorkgroupEmpty(a)
    \/ PassWorkgroupHandOff(a)

\* a driver calls ace.pass_workgroup(sink) with a sink whose get_workgroup
\* returns True and touches no compute unit, as that of a ShaderPipeInput
\* over a shader engine without compute units does
PassWorkgroupAccepting(a) ==
    /\ IF workgroup_queue_state[a] # "active"
       THEN /\ outcome' = Outcome("pass_workgroup", a, "None", NoExc)
            /\ UNCHANGED aceVars
       ELSE IF workgroup_queue[a] = <<>>
       THEN /\ outcome' = Outcome("pass_workgroup", a, "raised",
                                  "IndexError")
            /\ UNCHANGED aceVars
       ELSE /\ SetACE(a, after_hand_off([ACE(a) EXCEPT !.queue = Tail(@)]))
            /\ outcome' = Outcome("pass_workgroup", a, "None", NoExc)
    /\ UNCHANGED <<cuVars, spi_workgroup, dmaVars, cpVars, next_wg>>

\* a driver calls ace.finish_kernel()
FinishKernel(a) ==
    /\ SetACE(a, finish_kernel(ACE(a)))
    /\ outcome' = Outcome("finish_kernel", a, "None", NoExc)
    /\ UNCHANGED <<cuVars, spi_workgroup, dmaVars, cpVars, next_wg>>

---------------------------------------------------------------------------
(* DRAMController *)

Min2(a, b) == IF a <= b THEN a ELSE b

\* s[a:b] for 0 <= a: the elements at indices a .. b-1 that exist
PySlice(s, a, b) ==
    LET lo == Min2(a, Len(s))
        hi == Min2(b, Len(s))
    IN  IF hi <= lo THEN <<>> ELSE SubSeq(s, lo + 1, hi)

\* s[a:b] = data for 0 <= a <= b: the slice is replaced by data, whatever
\* the two lengths are
PySliceAssign(s, a, b, data) ==
    PySlice(s, 0, a) \o data \o PySlice(s, b, Len(s))

\* DRAMController.__init__: address_limit
address_limit == DramCapacity - 1

\* the test of the check_address decorator
check_address(address) == 0 <= address /\ address <= address_limit

\* DRAMController.load: the bytes returned
load(storage, address, size) == PySlice(storage, address, address + size)

\* DRAMController.store: the storage afterwards
store(storage, address, data) ==
    PySliceAssign(storage, address, address + Len(data), data)

\* byte values and the byte strings the driver stores: up to MaxData times
\* the same byte
Bytes == {0, 1}
DataStrings == {[i \in 1 .. n |-> b] : n \in 0 .. MaxData, b \in Bytes}
\* addresses the driver passes: around 0 and around the end of the storage
Addresses == {-1, 0} \cup (DramCapacity - MaxData - 1 .. DramCapacity + 1)

\* DRAMController.load called by the driver
Load(address, size) ==
    /\ IF check_address(address)
       THEN /\ dram_loaded' = load(dram_storage, address, size)
            /\ outcome' = Outcome("load", address, "bytes", NoExc)
       ELSE /\ dram_loaded' = dram_loaded
            /\ outcome' = Outcome("load", address, "raised", "ValueError")
    /\ UNCHANGED <<cuVars, spi_workgroup, aceVars, dma_kernel, dma_available,
                   dram_storage, taVars, tlbVars, cpVars, next_wg>>

\* DRAMController.store called by the driver
Store(address, data) ==
    /\ IF check_address(address)
       THEN /\ dram_storage' = store(dram_storage, address, data)
            /\ outcome' = Outcome("store", address, "None", NoExc)
       ELSE /\ dram_storage' = dram_storage
            /\ outcome' = Outcome("store", address, "raised", "ValueError")
    /\ UNCHANGED <<cuVars, spi_workgroup, aceVars, dma_kernel, dma_available,
                   dram_loaded, taVars, tlbVars, cpVars, next_wg>>

\* DRAMController.vector_load from the i-th request on: the list returned,
\* or the exception of the first load that raises
RECURSIVE dram_vector_load(_, _, _, _, _)
dram_vector_load(storage, addresses, sizes, i, results) ==
    IF i > Len(addresses) \/ i > Len(sizes)
    THEN [results |-> results, exc |-> NoExc]
    ELSE IF ~check_address(addresses[i])
         THEN [results |-> results, exc |-> "ValueError"]
         ELSE dram_vector_load(storage, addresses, sizes, i + 1,
                               Append(results,
                                      load(storage, addresses[i], sizes[i])))

\* DRAMController.vector_store from the i-th request on: the storage
\* afterwards, with the stores made before one raises
RECURSIVE dram_vector_store(_, _, _, _)
dram_vector_store(storage, addresses, data, i) ==
    IF i > Len(addresses) \/ i > Len(data)
    THEN [storage |-> storage, exc |-> NoExc]
    ELSE IF ~check_address(addresses[i])
         THEN [storage |-> storage, exc |-> "ValueError"]
         ELSE dram_vector_store(store(storage, addresses[i], data[i]),
                                addresses, data, i + 1)

\* the address lists, sizes and data of the vector calls a driver makes
VectorAddresses == {0, DramCapacity - 1, DramCapacity}
VectorData == {<<1>>, <<1, 1>>}
VectorLength == 2

\* DRAMController.vector_load called by the driver
DramVectorLoad(addresses, sizes) ==
    /\ LET r == dram_vector_load(dram_storage, addresses, sizes, 1, <<>>)
       IN  /\ dram_loaded' = IF r.exc = NoExc THEN r.results ELSE dram_loaded
           /\ outcome' = Outcome("vector_load", Len(addresses),
                                 IF r.exc = NoExc THEN "list" ELSE "raised",
                                 r.exc)
    /\ UNCHANGED <<cuVars, spi_workgroup, aceVars, dma_kernel, dma_available,
                   dram_storage, taVars, tlbVars, cpVars, next_wg>>

\* DRAMController.vector_store called by the driver
DramVectorStore(addresses, data) ==
    /\ LET r == dram_vector_store(dram_storage, addresses, data, 1)
       IN  /\ dram_storage' = r.storage
           /\ outcome' = Outcome("vector_store", Len(addresses),
                                 IF r.exc = NoExc THEN "None" ELSE "raised",
                                 r.exc)
    /\ UNCHANGED <<cuVars, spi_workgroup, aceVars, dma_kernel, dma_available,
                   dram_loaded, taVars, tlbVars, cpVars, next_wg>>

---------------------------------------------------------------------------
(* TextureAddressing and L1VCache *)

\* L1VCache.__init__: line_size, handed to TextureAddressing as its
\* transaction_size
transaction_size == 64

Max2(a, b) == IF a >= b THEN a ELSE b

\* zip(addresses, sizes): pairs up to the shorter list
zip(addresses, sizes) ==
    [i \in 1 .. Min2(Len(addresses), Len(sizes)) |->
        <<addresses[i], sizes[i]>>]

\* tuple comparison of two (address, size) pairs
TupleLess(p, q) == p[1] < q[1] \/ (p[1] = q[1] /\ p[2] < q[2])

\* sorted(...) of a list of pairs
RECURSIVE sorted(_)
sorted(s) ==
    IF s = <<>> THEN <<>>
    ELSE LET m == CHOOSE i \in 1 .. Len(s) :
                      \A j \in 1 .. Len(s) :
                          /\ ~TupleLess(s[j], s[i])
                          /\ (s[j] = s[i] => i <= j)
             rest == [i \in 1 .. Len(s) - 1 |->
                         IF i < m THEN s[i] ELSE s[i + 1]]
         IN  <<s[m]>> \o sorted(rest)

\* the loop with a region extended only by a request that starts inside it
RECURSIVE coalesce_loop_touching(_, _, _, _, _)
coalesce_loop_touching(addr_size_pairs, i, current_start, current_end, coalesced) ==
    IF i > Len(addr_size_pairs)
    THEN Append(coalesced, <<current_start, current_end - current_start>>)
    ELSE LET addr == addr_size_pairs[i][1]
             size == addr_size_pairs[i][2]
         IN  IF addr <= current_end
             THEN coalesce_loop_touching(addr_size_pairs, i + 1,
                                         current_start,
                                         Max2(current_end, addr + size),
                                         coalesced)
             ELSE coalesce_loop_touching(addr_size_pairs, i + 1, addr,
                                         addr + size,
                                         Append(coalesced,
                                                <<current_start,
                                                  current_end
                                                      - current_start>>))

\* as coalesce_loop, but a request extends the region only when it starts
\* within one transaction size of the region's start
RECURSIVE coalesce_loop_from_start(_, _, _, _, _)
coalesce_loop_from_start(addr_size_pairs, i, current_start, current_end, coalesced) ==
    IF i > Len(addr_size_pairs)
    THEN Append(coalesced, <<current_start, current_end - current_start>>)
    ELSE LET addr == addr_size_pairs[i][1]
             size == addr_size_pairs[i][2]
         IN  IF addr <= current_start + transaction_size
             THEN coalesce_loop_from_start(addr_size_pairs, i + 1,
                                           current_start,
                                           Max2(current_end, addr + size),
                                           coalesced)
             ELSE coalesce_loop_from_start(addr_size_pairs, i + 1, addr,
                                           addr + size,
                                           Append(coalesced,
                                                  <<current_start,
                                                    current_end
                                                      - current_start>>))

\* the loop of coalesce_memory_requests over addr_size_pairs[i ..]
RECURSIVE coalesce_loop(_, _, _, _, _)
coalesce_loop(addr_size_pairs, i, current_start, current_end, coalesced) ==
    IF i > Len(addr_size_pairs)
    THEN Append(coalesced, <<current_start, current_end - current_start>>)
    ELSE LET addr == addr_size_pairs[i][1]
             size == addr_size_pairs[i][2]
         IN  IF addr <= current_end + transaction_size
             THEN coalesce_loop(addr_size_pairs, i + 1, current_start,
                                Max2(current_end, addr + size), coalesced)
             ELSE coalesce_loop(addr_size_pairs, i + 1, addr, addr + size,
                                Append(coalesced,
                                       <<current_start,
                                         current_end - current_start>>))

\* TextureAddressing.coalesce_memory_requests: the list returned
coalesce_memory_requests(addresses, sizes) ==
    IF addresses = <<>> THEN <<>>
    ELSE LET addr_size_pairs == sorted(zip(addresses, sizes))
         IN  coalesce_loop(addr_size_pairs, 2, addr_size_pairs[1][1],
                           addr_size_pairs[1][1] + addr_size_pairs[1][2],
                           <<>>)

\* TextureAddressing.coalesce_memory_requests: the stats afterwards
coalesce_stats(stats, addresses, sizes) ==
    IF addresses = <<>> THEN stats
    ELSE [total_requests |-> stats.total_requests + Len(addresses),
          coalesced_transactions |->
              stats.coalesced_transactions
                  + Len(coalesce_memory_requests(addresses, sizes)),
          total_transactions |-> stats.total_transactions + Len(addresses)]

\* L1VCache.vector_load: the TA block coalesces; the first transaction is
\* then handed to self._load_block, which no class of the cache defines,
\* as none defines _decoalesce_data
vector_load(stats, addresses, sizes) ==
    LET coalesced_requests == coalesce_memory_requests(addresses, sizes)
    IN  [stats |-> coalesce_stats(stats, addresses, sizes),
         results |-> <<>>,
         exc |-> IF coalesced_requests = <<>> THEN NoExc
                 ELSE "AttributeError"]

\* the addresses and sizes a driver puts into a batch
RequestAddresses == {0, 4, 8, 70, 74}
RequestSizes == {4, 8}
NoBatch == [addresses |-> <<>>, sizes |-> <<>>]
ScenarioBatch ==
    [addresses |-> <<0, 4, 8, 70, 74>>, sizes |-> <<4, 4, 4, 4, 4>>]
\* the batches a driver passes: every batch of up to MaxBatch requests, and
\* the batch of one 4-byte request per address
Lists(S, n) == UNION {[1 .. m -> S] : m \in 0 .. n}
Batches ==
    {[addresses |-> [i \in 1 .. Len(b) |-> b[i][1]],
      sizes |-> [i \in 1 .. Len(b) |-> b[i][2]]] :
        b \in Lists(RequestAddresses \X RequestSizes, MaxBatch)}
    \cup {ScenarioBatch}

\* TextureAddressing.coalesce_memory_requests called by the driver with its
\* batch
CoalesceMemoryRequests ==
    /\ ta_stats.total_requests + Len(ta_request.addresses) <= MaxRequests
    /\ ta_stats' =
           coalesce_stats(ta_stats, ta_request.addresses, ta_request.sizes)
    /\ ta_returned' =
           coalesce_memory_requests(ta_request.addresses, ta_request.sizes)
    /\ outcome' = Outcome("coalesce_memory_requests",
                          Len(ta_request.addresses), "list", NoExc)
    /\ UNCHANGED <<cuVars, spi_workgroup, aceVars, dma_kernel, dma_available,
                   dramVars, ta_request, tlbVars, cpVars, next_wg>>

\* L1VCache.vector_load called by the driver with its batch
VectorLoad ==
    /\ ta_stats.total_requests + Len(ta_request.addresses) <= MaxRequests
    /\ LET r == vector_load(ta_stats, ta_request.addresses,
                            ta_request.sizes)
       IN  /\ ta_stats' = r.stats
           /\ ta_returned' = r.results
           /\ outcome' = Outcome("vector_load", Len(ta_request.addresses),
                                 IF r.exc = NoExc THEN "list" ELSE "raised",
                                 r.exc)
    /\ UNCHANGED <<cuVars, spi_workgroup, aceVars, dma_kernel, dma_available,
                   dramVars, ta_request, tlbVars, cpVars, next_wg>>

---------------------------------------------------------------------------
(* L2TLB *)

\* what lookup returns for the address on a miss
NoAddress == "None"

\* the keys of the entries dict, in insertion order
Keys(entries) == [i \in 1 .. Len(entries) |-> entries[i][1]]
HasKey(entries, key) == \E i \in 1 .. Len(entries) : entries[i][1] = key
\* entries[key]
Value(entries, key) ==
    entries[CHOOSE i \in 1 .. Len(entries) : entries[i][1] = key][2]
\* entries[key] = value: a resident key keeps its place
SetItem(entries, key, value) ==
    IF HasKey(entries, key)
    THEN [i \in 1 .. Len(entries) |->
             IF entries[i][1] = key THEN <<key, value>> ELSE entries[i]]
    ELSE Append(entries, <<key, value>>)

\* as lookup, but translating to the base of the physical page
lookup_page_base(entries, virtual_address) ==
    LET vpn == virtual_address \div PageSize
    IN  IF HasKey(entries, vpn)
        THEN [physical_address |-> Value(entries, vpn) * PageSize,
              hit |-> TRUE]
        ELSE [physical_address |-> NoAddress, hit |-> FALSE]

\* L2TLB.lookup: the tuple returned
lookup(entries, virtual_address) ==
    LET vpn == virtual_address \div PageSize
        offset == virtual_address % PageSize
    IN  IF HasKey(entries, vpn)
        THEN [physical_address |-> (Value(entries, vpn) * PageSize) + offset,
              hit |-> TRUE]
        ELSE [physical_address |-> NoAddress, hit |-> FALSE]

\* insert with the newest entry removed from a full table
insert_evicting_newest(entries, virtual_address, physical_address) ==
    LET vpn == virtual_address \div PageSize
        ppn == physical_address \div PageSize
        kept == IF Len(entries) >= TlbSize
                THEN SubSeq(entries, 1, Len(entries) - 1) ELSE entries
    IN  SetItem(kept, vpn, ppn)

\* L2TLB.insert: the entries afterwards
insert(entries, virtual_address, physical_address) ==
    LET vpn == virtual_address \div PageSize
        ppn == physical_address \div PageSize
        kept == IF Len(entries) >= TlbSize THEN Tail(entries) ELSE entries
    IN  SetItem(kept, vpn, ppn)

\* the addresses a driver translates
VirtualPages == 0 .. 3
PhysicalPages == 0 .. 1
VirtualAddresses ==
    {p * PageSize + o : p \in VirtualPages, o \in {0, PageSize - 1}}
PhysicalAddresses ==
    {p * PageSize + o : p \in PhysicalPages, o \in {0, PageSize - 1}}

memFrame ==
    UNCHANGED <<cuVars, spi_workgroup, aceVars, dma_kernel, dma_available,
                dramVars, taVars, cpVars, next_wg>>

\* L2TLB.lookup called by the driver
Lookup(virtual_address) ==
    /\ access_count < MaxLookups
    /\ LET r == lookup(tlb_entries, virtual_address)
       IN  /\ access_count' = access_count + 1
           /\ hit_count' = IF r.hit THEN hit_count + 1 ELSE hit_count
           /\ miss_count' = IF r.hit THEN miss_count ELSE miss_count + 1
           /\ tlb_returned' = r
    /\ outcome' = Outcome("lookup", virtual_address, "tuple", NoExc)
    /\ UNCHANGED <<tlb_entries, tlb_inserted>>
    /\ memFrame

\* L2TLB.insert called by the driver
Insert(virtual_address, physical_address) ==
    /\ Len(tlb_inserted) < MaxInserts
    /\ tlb_entries' = insert(tlb_entries, virtual_address, physical_address)
    /\ tlb_inserted' = Append(tlb_inserted, virtual_address \div PageSize)
    /\ outcome' = Outcome("insert", virtual_address, "None", NoExc)
    /\ UNCHANGED <<access_count, hit_count, miss_count, tlb_returned>>
    /\ memFrame

\* L2TLB.flush called by the driver
Flush ==
    /\ tlb_entries' = <<>>
    /\ tlb_inserted' = <<>>
    /\ outcome' = Outcome("flush", -1, "None", NoExc)
    /\ UNCHANGED <<access_count, hit_count, miss_count, tlb_returned>>
    /\ memFrame

---------------------------------------------------------------------------
(* DMAEngine *)

\* DRAMController defines load and store; the write that
\* copy_from_cpu_to_dram calls is not an attribute of it.
DramHasWrite == FALSE

\* CPUMemory.read(address, size): the exception it raises, if any
cpu_read(address, size) ==
    IF address < 0 \/ address + size > CpuSize THEN "IndexError" ELSE NoExc

\* DMAEngine.copy_from_cpu_to_dram: the exception it raises, if any
copy_from_cpu_to_dram(src_addr, dst_addr, size) ==
    IF cpu_read(src_addr, size) # NoExc THEN cpu_read(src_addr, size)
    ELSE IF ~DramHasWrite THEN "AttributeError"
    ELSE NoExc

\* DMAEngine.demand on engine d: the engine's kernel and _available
\* afterwards, and the exception raised
demand(d, kernel) ==
    LET exc == copy_from_cpu_to_dram(kernel.src_addr, kernel.dst_addr,
                                     kernel.size)
    IN  IF exc # NoExc
        THEN [kernel |-> kernel, available |-> FALSE, exc |-> exc]
        ELSE [kernel |-> None, available |-> TRUE, exc |-> NoExc]

\* DMAEngine.demand (or receive_kernel, which redirects to it) called on
\* engine d by the driver
Demand(d, kernel) ==
    /\ LET r == demand(d, kernel)
       IN  /\ dma_kernel' = [dma_kernel EXCEPT ![d] = r.kernel]
           /\ dma_available' = [dma_available EXCEPT ![d] = r.available]
           /\ outcome' = Outcome("demand", d,
                                 IF r.exc = NoExc THEN "None" ELSE "raised",
                                 r.exc)
    /\ UNCHANGED <<cuVars, spi_workgroup, aceVars, memVars, cpVars, next_wg>>

\* DMAEngine.update_available called on engine d by the driver
UpdateAvailableDMA(d) ==
    /\ dma_available' = [dma_available EXCEPT ![d] = (dma_kernel[d] = None)]
    /\ outcome' = Outcome("update_available", d, "None", NoExc)
    /\ UNCHANGED <<cuVars, spi_workgroup, aceVars, dma_kernel, memVars,
                   cpVars, next_wg>>

---------------------------------------------------------------------------
(* CommandProcessor *)

RECURSIVE SelectSeq2(_, _)
\* the ids, in engine order, of the engines whose available flag is set
SelectSeq2(ids, flag) ==
    IF ids = <<>> THEN <<>>
    ELSE (IF flag[Head(ids)] THEN <<Head(ids)>> ELSE <<>>)
             \o SelectSeq2(Tail(ids), flag)

\* CommandProcessor.enqueue_command
EnqueueCommand(cmd) ==
    /\ Len(command_queue) < MaxQueue
    /\ command_queue' = Append(command_queue, cmd)
    /\ outcome' = Outcome("enqueue_command", -1, "None", NoExc)
    /\ UNCHANGED <<cuVars, spi_workgroup, aceVars, dmaVars, available_dma,
                   available_ace, next_wg>>

\* CommandProcessor.add_available_dma
add_available_dma(pool) ==
    pool \o SelectSeq2([i \in 1 .. NumDMA |-> i - 1], dma_available)

\* CommandProcessor.add_available_ace
add_available_ace(pool) ==
    pool \o SelectSeq2([i \in 1 .. NumACE |-> i - 1], ace_available)

AddAvailableDMA ==
    /\ Len(add_available_dma(available_dma)) <= MaxPool
    /\ available_dma' = add_available_dma(available_dma)
    /\ outcome' = Outcome("add_available_dma", -1, "None", NoExc)
    /\ UNCHANGED <<cuVars, spi_workgroup, aceVars, dmaVars, available_ace,
                   command_queue, next_wg>>

AddAvailableACE ==
    /\ Len(add_available_ace(available_ace)) <= MaxPool
    /\ available_ace' = add_available_ace(available_ace)
    /\ outcome' = Outcome("add_available_ace", -1, "None", NoExc)
    /\ UNCHANGED <<cuVars, spi_workgroup, aceVars, dmaVars, available_dma,
                   command_queue, next_wg>>

\* CommandProcessor.process_command, memory_copy with an empty pool:
\* find_available_dma's popleft raises
ProcessCopyNoEngine(cmd) ==
    /\ cmd.type = "memory_copy"
    /\ available_dma = <<>>
    /\ outcome' = Outcome("process_command", -1, "raised", "IndexError")
    /\ UNCHANGED <<cuVars, spi_workgroup, aceVars, dmaVars, cpVars, next_wg>>

\* CommandProcessor.process_command, memory_copy
ProcessCopy(cmd) ==
    /\ cmd.type = "memory_copy"
    /\ available_dma # <<>>
    /\ LET dma_engine_id == Head(available_dma)
           r == demand(dma_engine_id, cmd)
       IN  /\ available_dma' = Tail(available_dma)
           /\ dma_kernel' = [dma_kernel EXCEPT ![dma_engine_id] = r.kernel]
           /\ dma_available' =
                  [dma_available EXCEPT ![dma_engine_id] = r.available]
           /\ outcome' = Outcome("process_command", dma_engine_id,
                                 IF r.exc = NoExc THEN "None" ELSE "raised",
                                 r.exc)
    /\ UNCHANGED <<cuVars, spi_workgroup, aceVars, memVars, available_ace,
                   command_queue, next_wg>>

\* CommandProcessor.process_command, kernel_launch with an empty pool:
\* find_available_ace's popleft raises
ProcessLaunchNoEngine(cmd) ==
    /\ cmd.type = "kernel_launch"
    /\ available_ace = <<>>
    /\ outcome' = Outcome("process_command", -1, "raised", "IndexError")
    /\ UNCHANGED <<cuVars, spi_workgroup, aceVars, dmaVars, cpVars, next_wg>>

\* CommandProcessor.process_command, kernel_launch
ProcessLaunch(cmd) ==
    /\ cmd.type = "kernel_launch"
    /\ available_ace # <<>>
    /\ LET ace_engine_id == Head(available_ace)
           n == workgroup_num(ACE(ace_engine_id))
       IN  /\ next_wg + n - 1 <= MaxLaunches * n
           /\ available_ace' = Tail(available_ace)
           /\ SetACE(ace_engine_id,
                     receive_kernel(ACE(ace_engine_id), cmd, next_wg))
           /\ next_wg' = next_wg + n
           /\ outcome' = Outcome("process_command", ace_engine_id, "None",
                                 NoExc)
    /\ UNCHANGED <<cuVars, spi_workgroup, dmaVars, available_dma,
                   command_queue>>

\* process_command taking an engine id before it looks at the type
ProcessUnknownAcquiring(cmd) ==
    /\ cmd.type \notin {"memory_copy", "kernel_launch"}
    /\ available_ace # <<>>
    /\ available_ace' = Tail(available_ace)
    /\ outcome' = Outcome("process_command", -1, "raised", "ValueError")
    /\ UNCHANGED <<cuVars, spi_workgroup, aceVars, dmaVars, available_dma,
                   command_queue, next_wg>>

\* CommandProcessor.process_command, any other type
ProcessUnknown(cmd) ==
    /\ cmd.type \notin {"memory_copy", "kernel_launch"}
    /\ outcome' = Outcome("process_command", -1, "raised", "ValueError")
    /\ UNCHANGED <<cuVars, spi_workgroup, aceVars, dmaVars, cpVars, next_wg>>

ProcessCommand(cmd) ==
    \/ ProcessCopyNoEngine(cmd)
    \/ ProcessCopy(cmd)
    \/ ProcessLaunchNoEngine(cmd)
    \/ ProcessLaunch(cmd)
    \/ ProcessUnknown(cmd)

---------------------------------------------------------------------------
(* SIMDUnit *)

\* SIMDUnit.start_execution: the unit afterwards and the value returned
start_execution(s, wavefront, instruction) ==
    IF s.busy THEN [simd |-> s, ret |-> FALSE]
    ELSE [simd |-> [s EXCEPT !.current_wavefront = wavefront,
                             !.current_instruction = instruction,
                             !.execution_cycle = 0,
                             !.busy = TRUE],
          ret |-> TRUE]

\* as SIMDUnit_execute_cycle, but completing after three cycles
SIMDUnit_execute_cycle_three(s) ==
    IF ~s.busy
    THEN [simd |-> [s EXCEPT !.cycles_idle = @ + 1], ret |-> FALSE]
    ELSE LET s1 == [s EXCEPT !.cycles_active = @ + 1,
                             !.execution_cycle = @ + 1]
         IN  IF s1.execution_cycle >= 3
             THEN [simd |-> [s1 EXCEPT !.instructions_executed = @ + 1,
                                       !.busy = FALSE,
                                       !.current_wavefront = None,
                                       !.current_instruction = None],
                   ret |-> TRUE]
             ELSE [simd |-> s1, ret |-> FALSE]

\* SIMDUnit.execute_cycle: the unit afterwards and the value returned
SIMDUnit_execute_cycle(s) ==
    IF ~s.busy
    THEN [simd |-> [s EXCEPT !.cycles_idle = @ + 1], ret |-> FALSE]
    ELSE LET s1 == [s EXCEPT !.cycles_active = @ + 1,
                             !.execution_cycle = @ + 1]
         IN  IF s1.execution_cycle >= 4
             THEN [simd |-> [s1 EXCEPT !.instructions_executed = @ + 1,
                                       !.busy = FALSE,
                                       !.current_wavefront = None,
                                       !.current_instruction = None],
                   ret |-> TRUE]
             ELSE [simd |-> s1, ret |-> FALSE]

\* the instructions handed to a SIMD unit
Instructions == {"INSTR_0", "INSTR_1"}

\* no start_execution call has succeeded yet
NothingStarted ==
    [started |-> FALSE, executed |-> 0, returns |-> <<>>, refused |-> 0]

simdFrame ==
    UNCHANGED <<ledgerVars, limitVars, sqVars, current_pool, execution_units,
                cycle_count, hierVars, spi_workgroup, aceVars, dmaVars,
                cpVars, next_wg>>

\* a driver calls unit.start_execution(wavefront, instruction)
StartExecution(wavefront, instruction) ==
    /\ LET r == start_execution(simd, wavefront, instruction)
       IN  /\ simd' = r.simd
           /\ simd_trace' =
                 IF r.ret
                 THEN [started |-> TRUE,
                       executed |-> simd.instructions_executed,
                       returns |-> <<>>, refused |-> 0]
                 ELSE [simd_trace EXCEPT !.refused = 1]
           /\ outcome' = Outcome("start_execution", -1,
                                 IF r.ret THEN "True" ELSE "False", NoExc)
    /\ simdFrame

\* a driver calls unit.execute_cycle()
SIMDExecuteCycle ==
    /\ simd.cycles_active + simd.cycles_idle < MaxSimdCycles
    /\ LET r == SIMDUnit_execute_cycle(simd)
       IN  /\ simd' = r.simd
           /\ simd_trace' =
                 IF simd_trace.started
                 THEN [simd_trace EXCEPT !.returns = Append(@, r.ret)]
                 ELSE simd_trace
           /\ outcome' = Outcome("SIMDUnit.execute_cycle", -1,
                                 IF r.ret THEN "True" ELSE "False", NoExc)
    /\ simdFrame

---------------------------------------------------------------------------
(* Construction *)

EmptyDict == [x \in {} |-> 0]

\* SIMDUnit.__init__
InitSIMD ==
    /\ simd = [current_wavefront |-> None, current_instruction |-> None,
               execution_cycle |-> 0, busy |-> FALSE,
               instructions_executed |-> 0, cycles_active |-> 0,
               cycles_idle |-> 0]
    /\ simd_trace = NothingStarted

\* InstructionSequencer.__init__ and the rest of ComputeUnit.__init__ of
\* every unit, but for the caches handed to the sequencer
InitUnits ==
    /\ wavefront_slots = [c \in CUs |-> <<>>]
    /\ used_sgpr = [c \in CUs |-> 0]
    /\ used_vgpr = [c \in CUs |-> 0]
    /\ used_lds  = [c \in CUs |-> 0]
    /\ max_sgpr = [c \in CUs |-> DefaultMaxSgpr]
    /\ max_lds  = [c \in CUs |-> DefaultMaxLds]
    /\ wavefront_pools = [c \in CUs |-> [p \in PoolIdx |-> <<>>]]
    /\ instruction_buffers = [c \in CUs |-> EmptyDict]
    /\ program_counters = [c \in CUs |-> EmptyDict]
    /\ executing_wavefronts = [c \in CUs |-> EmptyDict]
    /\ current_pool = [c \in CUs |-> 0]
    /\ execution_units = [c \in CUs |-> [t \in UnitTypes |-> NoIssue]]
    /\ cycle_count = [c \in CUs |-> 0]
    /\ l1i_accesses = [c \in CUs |-> 0]
    /\ l1i_misses = [c \in CUs |-> 0]
    /\ l2_accesses = [c \in CUs |-> 0]
    /\ l2_misses = [c \in CUs |-> 0]
    /\ probes = [l1 |-> NotProbed, l2 |-> NotProbed]
    /\ InitSIMD

\* ComputeUnit.__init__: the sequencer of a unit is built without caches
InitCU ==
    /\ InitUnits
    /\ l1icache = [c \in CUs |-> FALSE]
    /\ l2cache = [c \in CUs |-> FALSE]

\* ShaderPipeInput.__init__
InitSPI == spi_workgroup = NoWorkgroup

\* AsyncComputeEngine.__init__ of every engine
InitACE ==
    /\ ace_kernel = [a \in ACEs |-> None]
    /\ ace_available = [a \in ACEs |-> TRUE]
    /\ workgroup_queue = [a \in ACEs |-> <<>>]
    /\ workgroup_queue_state = [a \in ACEs |-> "empty"]
    /\ active_kernel_workgroups = [a \in ACEs |-> EmptyDict]

\* DRAMController.__init__
InitDRAM ==
    /\ dram_storage = [i \in 1 .. DramCapacity |-> 0]
    /\ dram_loaded = <<>>

\* L1VCache.__init__ / TextureAddressing.__init__
InitL1V ==
    /\ ta_stats = [total_requests |-> 0, coalesced_transactions |-> 0,
                   total_transactions |-> 0]
    /\ ta_returned = <<>>

\* L2TLB.__init__
InitTLB ==
    /\ tlb_entries = <<>>
    /\ access_count = 0
    /\ hit_count = 0
    /\ miss_count = 0
    /\ tlb_inserted = <<>>
    /\ tlb_returned = [physical_address |-> NoAddress, hit |-> FALSE]

\* the memory side of the GPU: DMAEngine.__init__ of every engine, over the
\* one DRAMController, with the vector cache and the TLB as constructed
InitDMA ==
    /\ dma_kernel = [d \in DMAs |-> None]
    /\ dma_available = [d \in DMAs |-> TRUE]
    /\ InitDRAM /\ InitL1V /\ InitTLB

\* CommandProcessor.__init__
InitCP ==
    /\ available_dma = [i \in 1 .. NumDMA |-> i - 1]
    /\ available_ace = [i \in 1 .. NumACE |-> i - 1]
    /\ command_queue = <<>>

\* the attributes a driver may assign before a run: left as constructed
DefaultLimits ==
    /\ max_wavefront_slots = [c \in CUs |-> DefaultMaxWavefrontSlots]
    /\ max_vgpr = [c \in CUs |-> DefaultMaxVgpr]
    /\ max_active_workgroups = [a \in ACEs |-> DefaultMaxActiveWorkgroups]

InitAll ==
    /\ InitCU /\ InitSPI /\ InitACE /\ InitDMA /\ InitCP
    /\ DefaultLimits
    /\ ta_request = NoBatch
    /\ next_wg = 1
    /\ outcome = Outcome("init", -1, "None", NoExc)

---------------------------------------------------------------------------
(* One compute unit (the first) driven by allocate_resources and           *)
(* free_resources alone.                                                   *)

NextCU ==
    \E w \in HarnessWavefronts :
        \/ AllocateResources(0, w)
        \/ FreeResources(0, w)

SpecCU == InitAll /\ [][NextCU]_vars

---------------------------------------------------------------------------
(* An instruction sequencer constructed with or without an L1 instruction  *)
(* cache and an L2 cache, fetching instructions through the hierarchy.     *)

\* a driver calls sequencer._fetch_from_memory_hierarchy(wavefront, pc)
FetchFromMemoryHierarchy(c) ==
    /\ l1i_accesses[c] < MaxFetches
    /\ \E l1_hit \in BOOLEAN, l2_hit \in BOOLEAN :
           SetSQ(c, fetch_from_memory_hierarchy(SQ(c), l1_hit, l2_hit))
    /\ outcome' = Outcome("_fetch_from_memory_hierarchy", c, "INSTR", NoExc)
    /\ UNCHANGED <<spi_workgroup, aceVars, dmaVars, cpVars, next_wg>>

\* InstructionSequencer(max_wavefront_slots, l1icache, l2cache, dram) with
\* each cache present or None
InitHierarchy ==
    /\ InitUnits
    /\ l1icache \in [CUs -> BOOLEAN]
    /\ l2cache \in [CUs -> BOOLEAN]
    /\ \A c \in CUs \ {0} : ~l1icache[c] /\ ~l2cache[c]
    /\ InitSPI /\ InitACE /\ InitDMA /\ InitCP
    /\ DefaultLimits
    /\ ta_request = NoBatch
    /\ next_wg = 1
    /\ outcome = Outcome("init", -1, "None", NoExc)

NextHierarchy == FetchFromMemoryHierarchy(0)

SpecHierarchy == InitHierarchy /\ [][NextHierarchy]_vars

---------------------------------------------------------------------------
(* One SIMD unit driven by start_execution and execute_cycle.              *)

NextSIMD ==
    \/ \E w \in HarnessWavefronts, i \in Instructions : StartExecution(w, i)
    \/ SIMDExecuteCycle

SpecSIMD == InitAll /\ [][NextSIMD]_vars

---------------------------------------------------------------------------
(* The instruction sequencer of the first compute unit: wavefronts         *)
(* allocated and freed on the unit, instructions fetched and issued.       *)

NextSequencer ==
    \/ \E w \in HarnessWavefronts : AllocateResources(0, w)
    \/ \E w \in HarnessWavefronts : FreeResources(0, w)
    \/ FetchInstructions(0)
    \/ IssueInstructions(0)

SpecSequencer == InitAll /\ [][NextSequencer]_vars

---------------------------------------------------------------------------
(* The first compute unit run cycle by cycle: wavefronts are allocated on  *)
(* it and its driver keeps calling execute_cycle.                          *)

NextCycle ==
    \/ \E w \in HarnessWavefronts : AllocateResources(0, w)
    \/ ExecuteCycle(0)

SpecCycle == InitAll /\ [][NextCycle]_vars /\ WF_vars(ExecuteCycle(0))

---------------------------------------------------------------------------
(* Kernel dispatch: the first engine's receive_kernel / pass_workgroup     *)
(* feeding the shader pipe input, and wavefronts released with             *)
(* free_resources.  The driver has set the engines'                        *)
(* resource_limits["max_active_workgroups"] to ConfiguredWorkgroups, and   *)
(* either left the units' ceilings at their defaults or set them to make   *)
(* room for exactly two workgroups.                                        *)

TwoWorkgroupSlots == 2 * wavefront_per_workgroup
TwoWorkgroupVgpr  == TwoWorkgroupSlots * vgpr_needed

InitDispatch ==
    /\ InitCU /\ InitSPI /\ InitACE /\ InitDMA /\ InitCP
    /\ ta_request = NoBatch
    /\ max_active_workgroups = [a \in ACEs |-> ConfiguredWorkgroups]
    /\ \/ /\ max_wavefront_slots = [c \in CUs |-> DefaultMaxWavefrontSlots]
          /\ max_vgpr = [c \in CUs |-> DefaultMaxVgpr]
       \/ /\ max_wavefront_slots = [c \in CUs |-> TwoWorkgroupSlots]
          /\ max_vgpr = [c \in CUs |-> TwoWorkgroupVgpr]
    /\ next_wg = 1
    /\ outcome = Outcome("init", -1, "None", NoExc)

\* wavefront objects the driver can pass to free_resources of unit c: the
\* ones it finds in the unit's wavefront_slots and ones it builds itself
Freeable(c) ==
    {wavefront_slots[c][i] : i \in 1 .. Len(wavefront_slots[c])}
        \cup HarnessWavefronts

NextDispatch ==
    \/ \E k \in Kernels : ReceiveKernel(0, k)
    \/ PassWorkgroup(0)
    \/ BreakKernel(0)
    \/ \E c \in CUs : \E w \in Freeable(c) : FreeResources(c, w)

SpecDispatch == InitDispatch /\ [][NextDispatch]_vars

---------------------------------------------------------------------------
(* The first engine driven through its public operations: receive_kernel,  *)
(* finish_kernel, and pass_workgroup to the shader pipe input or to an     *)
(* accepting sink.                                                         *)

NextACE ==
    \/ \E k \in Kernels : ReceiveKernel(0, k)
    \/ PassWorkgroup(0)
    \/ PassWorkgroupAccepting(0)
    \/ FinishKernel(0)

SpecACE == InitDispatch /\ [][NextACE]_vars

---------------------------------------------------------------------------
(* The first engine drained: kernels are received and the driver keeps     *)
(* calling pass_workgroup with an accepting sink.                          *)

NextDrain ==
    \/ \E k \in Kernels : ReceiveKernel(0, k)
    \/ PassWorkgroupAccepting(0)

SpecDrain ==
    InitDispatch /\ [][NextDrain]_vars /\ WF_vars(PassWorkgroupAccepting(0))

---------------------------------------------------------------------------
(* The shader pipe input alone: get_workgroup called by the driver with    *)
(* workgroups of its own, and wavefronts released with free_resources.     *)

NextSPI ==
    \/ \E k \in Kernels : GetWorkgroup(k)
    \/ \E c \in CUs : \E w \in Freeable(c) : FreeResources(c, w)

SpecSPI == InitAll /\ [][NextSPI]_vars

---------------------------------------------------------------------------
(* The command processor with its engines: commands enqueued and           *)
(* processed, the availability pools refreshed, and the engines' workgroup *)
(* queues drained through the shader pipe input.  The driver has set the   *)
(* engines' resource_limits["max_active_workgroups"] to                    *)
(* ConfiguredWorkgroups.                                                   *)

InitCP_Run ==
    /\ InitCU /\ InitSPI /\ InitACE /\ InitDMA /\ InitCP
    /\ max_wavefront_slots = [c \in CUs |-> DefaultMaxWavefrontSlots]
    /\ max_vgpr = [c \in CUs |-> DefaultMaxVgpr]
    /\ max_active_workgroups = [a \in ACEs |-> ConfiguredWorkgroups]
    /\ ta_request = NoBatch
    /\ next_wg = 1
    /\ outcome = Outcome("init", -1, "None", NoExc)

\* the commands the driver processes: one kernel launch, the memory
\* copies, and a command of unknown type
CPCommands == {KernelLaunch(1)} \cup MemoryCopies \cup {UnknownCommand}

NextCP ==
    \/ \E cmd \in CPCommands : ProcessCommand(cmd)
    \/ AddAvailableDMA
    \/ AddAvailableACE
    \/ \E a \in ACEs : PassWorkgroup(a)

SpecCP == InitCP_Run /\ [][NextCP]_vars

---------------------------------------------------------------------------
(* The command processor's own operations: commands enqueued, commands     *)
(* processed, the availability pools refreshed.  No workgroup is handed    *)
(* on, so an engine that received a kernel keeps it.                       *)

NextQueue ==
    \/ \E cmd \in CPCommands : EnqueueCommand(cmd)
    \/ \E cmd \in CPCommands : ProcessCommand(cmd)
    \/ AddAvailableDMA
    \/ AddAvailableACE

SpecQueue == InitCP_Run /\ [][NextQueue]_vars

---------------------------------------------------------------------------
(* The DMA engines: memory-copy commands demanded of an engine directly   *)
(* or through the command processor, availability recomputed and the pool  *)
(* refreshed.                                                              *)

NextDMA ==
    \/ \E d \in DMAs : \E cmd \in MemoryCopies : Demand(d, cmd)
    \/ \E d \in DMAs : UpdateAvailableDMA(d)
    \/ \E cmd \in MemoryCopies : ProcessCopy(cmd)
    \/ \E cmd \in MemoryCopies : ProcessCopyNoEngine(cmd)
    \/ AddAvailableDMA

SpecDMA == InitAll /\ [][NextDMA]_vars

---------------------------------------------------------------------------
(* The DRAM controller driven directly: bytes loaded and stored.           *)

NextDRAM ==
    \/ \E a \in Addresses : \E n \in 0 .. MaxData : Load(a, n)
    \/ \E a \in Addresses : \E data \in DataStrings : Store(a, data)

SpecDRAM == InitAll /\ [][NextDRAM]_vars

---------------------------------------------------------------------------
(* The DRAM controller driven by single and vector loads and stores.       *)

NextDRAMVector ==
    \/ \E a \in VectorAddresses : \E n \in 1 .. 2 : Load(a, n)
    \/ \E a \in VectorAddresses : \E data \in VectorData : Store(a, data)
    \/ \E addresses \in Lists(VectorAddresses, VectorLength) :
          \E sizes \in [1 .. Len(addresses) -> 1 .. 2] :
              DramVectorLoad(addresses, sizes)
    \/ \E addresses \in Lists(VectorAddresses, VectorLength) :
          \E data \in [1 .. Len(addresses) -> VectorData] :
              DramVectorStore(addresses, data)

SpecDRAMVector == InitAll /\ [][NextDRAMVector]_vars

---------------------------------------------------------------------------
(* The vector cache and its texture-addressing block, driven by            *)
(* coalesce_memory_requests and vector_load.                               *)

InitL1V_Run ==
    /\ InitCU /\ InitSPI /\ InitACE /\ InitDMA /\ InitCP
    /\ DefaultLimits
    /\ ta_request \in Batches
    /\ next_wg = 1
    /\ outcome = Outcome("init", -1, "None", NoExc)

NextL1V ==
    \/ CoalesceMemoryRequests
    \/ VectorLoad

SpecL1V == InitL1V_Run /\ [][NextL1V]_vars

---------------------------------------------------------------------------
(* One L2TLB driven by lookup, insert and flush.                           *)

NextTLB ==
    \/ \E va \in VirtualAddresses : Lookup(va)
    \/ \E va \in VirtualAddresses : \E pa \in PhysicalAddresses :
           Insert(va, pa)
    \/ Flush

SpecTLB == InitAll /\ [][NextTLB]_vars

---------------------------------------------------------------------------
(* Claims about the compute unit's ledger (SpecCU) *)

\* the wavefront object w itself is in unit c's wavefront_slots
Registered(c, w) ==
    \E i \in 1 .. Len(wavefront_slots[c]) : wavefront_slots[c][i] = w

\* C1: in every reachable state all four ledger bounds hold on every unit:
\* len(wavefront_slots) <= max_wavefront_slots (40), used_sgpr <= max_sgpr
\* (800), used_vgpr <= max_vgpr (256), used_lds <= max_lds (65536).
C1_LedgerBounds ==
    \A c \in CUs :
        /\ max_wavefront_slots[c] = 40 /\ max_sgpr[c] = 800
        /\ max_vgpr[c] = 256 /\ max_lds[c] = 65536
        /\ Len(wavefront_slots[c]) <= max_wavefront_slots[c]
        /\ used_sgpr[c] <= max_sgpr[c]
        /\ used_vgpr[c] <= max_vgpr[c]
        /\ used_lds[c] <= max_lds[c]

\* C1 witness: a unit whose vector registers are used up to the ceiling
C1_Witness ==
    /\ used_vgpr[0] = max_vgpr[0]
    /\ Len(wavefront_slots[0]) = 4
    /\ used_sgpr[0] = 128 /\ used_lds[0] = 8192

\* C6: free_resources(w) for a wavefront object w that is not registered on
\* the unit leaves the ledger, the slot list and the sequencer unchanged.
C6_FreeUnregisteredIsNoOp ==
    [][\A c \in CUs, w \in HarnessWavefronts :
          (FreeResources(c, w) /\ ~Registered(c, w))
              => UNCHANGED <<ledgerVars, sqVars>>]_vars

\* C7: an allocate_resources call made while the admission predicate fails
\* returns False and changes neither the ledger nor the sequencer.
C7_FailedAllocationFrame ==
    [][\A c \in CUs :
          (/\ outcome'.op = "allocate_resources"
           /\ outcome'.target = c
           /\ ~has_resources_for_wavefront(CU(c)))
              => (/\ outcome'.ret = "False"
                  /\ outcome'.exc = NoExc
                  /\ UNCHANGED <<ledgerVars, sqVars>>)]_vars

\* C7 witness: an allocation was just refused by a unit without resources
C7_Witness ==
    /\ outcome.op = "allocate_resources"
    /\ outcome.ret = "False"
    /\ ~has_resources_for_wavefront(CU(outcome.target))
    /\ wavefront_slots[outcome.target] # <<>>

---------------------------------------------------------------------------
(* Claims about the hand-off of workgroups (SpecSPI, SpecDispatch) *)

\* the wavefront object w itself is in the slot list of unit c
RegisteredIn(slots, c, w) ==
    \E j \in 1 .. Len(slots[c]) : slots[c][j] = w

\* every wavefront created for workgroup g is resident on one and the same
\* compute unit
AdmittedAll(slots, g) ==
    \E c \in CUs : \A i \in 1 .. wavefront_per_workgroup :
        RegisteredIn(slots, c, Wavefront(g, i))

\* no wavefront created for workgroup g is resident on any compute unit
AdmittedNone(slots, g) ==
    \A c \in CUs : \A i \in 1 .. wavefront_per_workgroup :
        ~RegisteredIn(slots, c, Wavefront(g, i))

\* unit u has the resources for n more wavefronts
RoomFor(u, n) ==
    /\ Len(u.slots) + n <= u.max_slots
    /\ u.sgpr + n * sgpr_needed <= u.max_sgpr
    /\ u.vgpr + n * vgpr_needed <= u.max_vgpr
    /\ u.lds + n * lds_needed <= u.max_lds

\* C2: after get_workgroup, either all 4 wavefronts created for the
\* workgroup are resident on one compute unit or none is resident anywhere.
C2_AllOrNothing ==
    outcome.op = "get_workgroup"
        => \/ AdmittedAll(wavefront_slots, spi_workgroup)
           \/ AdmittedNone(wavefront_slots, spi_workgroup)

\* C3: get_workgroup returns success only if every wavefront of the
\* workgroup was admitted, and fails with InsufficientResources when no
\* compute unit can admit all of them.
C3_SuccessOnlyIfAdmitted ==
    [][outcome'.op = "get_workgroup"
          => /\ outcome'.ret = "True"
                    => AdmittedAll(wavefront_slots', spi_workgroup')
             /\ (\A c \in CUs : ~RoomFor(CU(c), wavefront_per_workgroup))
                    => outcome'.exc = "InsufficientResources"]_vars

\* C4: a workgroup that pass_workgroup hands to the sink without all its
\* wavefronts being admitted is still in the engine's workgroup queue.
C4_NoWorkgroupLost ==
    [][\A a \in ACEs :
          (/\ outcome'.op = "pass_workgroup"
           /\ outcome'.target = a
           /\ workgroup_queue_state[a] = "active"
           /\ workgroup_queue[a] # <<>>)
              => LET g == Head(workgroup_queue[a]) IN
                 \/ AdmittedAll(wavefront_slots', g)
                 \/ \E j \in 1 .. Len(workgroup_queue'[a]) :
                        workgroup_queue'[a][j] = g]_vars

\* C5: with room for exactly 8 wavefronts and one kernel of 3 workgroups
\* launched, the hand-offs go: the first and the second workgroup are
\* admitted whole; the third stays queued and the hand-off fails with
\* InsufficientResources while 8 wavefronts are resident; once 4 have been
\* freed the retry admits the third workgroup and empties the queue.
C5_Scenario ==
    [][(/\ max_wavefront_slots[target_cu] = 8
        /\ max_active_workgroups[0] = 3
        /\ next_wg = 4
        /\ outcome'.op = "pass_workgroup"
        /\ outcome'.target = 0
        /\ workgroup_queue[0] # <<>>)
          => LET q == workgroup_queue[0]
                 n == Len(wavefront_slots[target_cu])
                 n1 == Len(wavefront_slots'[target_cu])
             IN  /\ (Len(q) = 3 /\ n = 0)
                        => /\ workgroup_queue'[0] = Tail(q)
                           /\ AdmittedAll(wavefront_slots', q[1])
                           /\ n1 = 4
                 /\ (Len(q) = 2 /\ n = 4)
                        => /\ workgroup_queue'[0] = Tail(q)
                           /\ AdmittedAll(wavefront_slots', q[1])
                           /\ n1 = 8
                 /\ (Len(q) = 1 /\ n = 8)
                        => /\ workgroup_queue'[0] = q
                           /\ outcome'.exc = "InsufficientResources"
                           /\ n1 = 8
                 /\ (Len(q) = 1 /\ n = 4)
                        => /\ workgroup_queue'[0] = <<>>
                           /\ AdmittedAll(wavefront_slots', q[1])
                           /\ n1 = 8]_vars

---------------------------------------------------------------------------
(* Claims about the command processor's engine pools (SpecCP) *)

\* id occurs in the pool
InPool(pool, id) == \E j \in 1 .. Len(pool) : pool[j] = id

\* no id occurs twice in the pool
NoDuplicates(pool) ==
    \A i, j \in 1 .. Len(pool) : pool[i] = pool[j] => i = j

\* C8: process_command hands a command only to an engine that holds none:
\* an engine id acquired for one command is not handed out again before
\* the engine has completed.
C8_NoDoubleDispatch ==
    [][\A cmd \in CPCommands :
          /\ ProcessLaunch(cmd) => ace_kernel[Head(available_ace)] = None
          /\ ProcessCopy(cmd) => dma_kernel[Head(available_dma)] = None]_vars

\* C9: an engine id is in its availability pool exactly when the engine
\* holds no kernel / command, and no id is in a pool twice.
C9_PoolIffIdle ==
    /\ \A a \in ACEs : InPool(available_ace, a) <=> ace_kernel[a] = None
    /\ \A d \in DMAs : InPool(available_dma, d) <=> dma_kernel[d] = None
    /\ NoDuplicates(available_ace)
    /\ NoDuplicates(available_dma)

\* the pool process_command takes an engine from for cmd is empty
PoolEmptyFor(cmd) ==
    \/ cmd.type = "memory_copy" /\ available_dma = <<>>
    \/ cmd.type = "kernel_launch" /\ available_ace = <<>>

\* an engine of the kind cmd needs holds no kernel / command
IdleEngineFor(cmd) ==
    \/ cmd.type = "memory_copy" /\ \E d \in DMAs : dma_kernel[d] = None
    \/ cmd.type = "kernel_launch" /\ \E a \in ACEs : ace_kernel[a] = None

\* C10: processing a memory_copy / kernel_launch command while the pool is
\* empty fails with NoEngineAvailable and changes no engine and no pool,
\* and an attempt made once an engine is idle dispatches the command.
C10_EmptyPoolRecoverable ==
    [][\A cmd \in CPCommands :
          (ProcessCommand(cmd) /\ cmd.type \in {"memory_copy", "kernel_launch"})
              => /\ PoolEmptyFor(cmd)
                        => /\ outcome'.exc = "NoEngineAvailable"
                           /\ UNCHANGED <<aceVars, dmaVars, cpVars>>
                 /\ IdleEngineFor(cmd) => outcome'.target # -1]_vars

---------------------------------------------------------------------------
(* Claims about command processing (SpecQueue) *)

\* C11: processing a command that is neither memory_copy nor kernel_launch
\* raises the unknown-command-type error (ValueError("Unknown command
\* type")), takes no engine id and changes no engine, no pool and no queue;
\* the next kernel_launch processed with a non-empty pool is dispatched.
C11_UnknownCommandFrame ==
    [][\A cmd \in CPCommands :
          /\ (ProcessCommand(cmd)
                  /\ cmd.type \notin {"memory_copy", "kernel_launch"})
                 => /\ outcome'.exc = "ValueError"
                    /\ outcome'.target = -1
                    /\ UNCHANGED <<aceVars, dmaVars, cpVars>>
          /\ (ProcessCommand(cmd) /\ outcome.exc = "ValueError"
                  /\ cmd.type = "kernel_launch" /\ available_ace # <<>>
                  /\ ENABLED ProcessLaunch(cmd))
                 => /\ outcome'.exc = NoExc
                    /\ outcome'.target = Head(available_ace)]_vars

\* an unknown command was processed while a command was queued, one engine
\* of each kind had been taken from its pool
C11_Witness ==
    /\ outcome.op = "process_command"
    /\ outcome.exc = "ValueError"
    /\ command_queue # <<>>
    /\ Len(available_ace) = NumACE - 1
    /\ Len(available_dma) = NumDMA - 1

\* C12: process_command takes the command at the head of command_queue and
\* removes it, and enqueue_command appends at the tail.
C12_FifoExactlyOnce ==
    [][\A cmd \in CPCommands :
          /\ ProcessCommand(cmd)
                 => /\ command_queue # <<>>
                    /\ cmd = Head(command_queue)
                    /\ command_queue' = Tail(command_queue)
          /\ EnqueueCommand(cmd)
                 => command_queue' = Append(command_queue, cmd)]_vars

---------------------------------------------------------------------------
(* Claims about the DMA engines (SpecDMA) and the DRAM controller         *)
(* (SpecDRAM)                                                              *)

\* the errors the code raises for an out-of-range access: ValueError from
\* DRAMController.check_address, IndexError from CPUMemory.read
AddressOutOfRange == {"ValueError", "IndexError"}

\* C13: demand on an engine that already holds a command fails (EngineBusy)
\* and leaves the held command, the availability flag and the DRAM as they
\* were.
C13_BusyEngineRefuses ==
    [][\A d \in DMAs : \A cmd \in MemoryCopies :
          (Demand(d, cmd) /\ dma_kernel[d] # None)
              => /\ outcome'.exc = "EngineBusy"
                 /\ dma_kernel'[d] = dma_kernel[d]
                 /\ dma_available'[d] = dma_available[d]
                 /\ dram_storage' = dram_storage]_vars

\* C14: a demand whose source or destination range is out of bounds fails
\* with the out-of-range error and leaves the engine idle: kernel None and
\* available.
C14_OutOfRangeLeavesIdle ==
    [][\A d \in DMAs : \A cmd \in MemoryCopies :
          (/\ Demand(d, cmd)
           /\ dma_kernel[d] = None
           /\ \/ cmd.src_addr + cmd.size > CpuSize
              \/ cmd.dst_addr + cmd.size > DramCapacity)
              => /\ outcome'.exc \in AddressOutOfRange
                 /\ dma_kernel'[d] = None
                 /\ dma_available'[d]]_vars

\* C15: a copy of 16 bytes from source 0 to destination 0 of a DRAM that
\* holds fewer than 16 bytes fails with the out-of-range error and leaves
\* the DRAM's bytes and their number unchanged.
C15_Scenario ==
    [][\A d \in DMAs :
          (/\ Demand(d, MemoryCopy(0, 0, 16))
           /\ dma_kernel[d] = None
           /\ Len(dram_storage) = DramCapacity
           /\ DramCapacity < 16)
              => /\ outcome'.exc \in AddressOutOfRange
                 /\ dram_storage' = dram_storage]_vars

\* C16: load and store succeed exactly when 0 <= address and
\* address + size <= capacity, and a failing call raises the out-of-range
\* error and leaves the storage unchanged.
C16_BoundaryExact ==
    [][/\ \A a \in Addresses : \A n \in 0 .. MaxData :
             Load(a, n)
                 => IF 0 <= a /\ a + n <= DramCapacity
                    THEN outcome'.exc = NoExc
                    ELSE /\ outcome'.exc \in AddressOutOfRange
                         /\ dram_storage' = dram_storage
       /\ \A a \in Addresses : \A data \in DataStrings :
             Store(a, data)
                 => IF 0 <= a /\ a + Len(data) <= DramCapacity
                    THEN outcome'.exc = NoExc
                    ELSE /\ outcome'.exc \in AddressOutOfRange
                         /\ dram_storage' = dram_storage]_vars

---------------------------------------------------------------------------
(* Claims about the engine's workgroup bookkeeping (SpecDispatch) *)

\* the number of workgroups of the kernel called name in queue q
QueuedOf(q, name) == Cardinality({i \in 1 .. Len(q) : q[i].kernel = name})

\* C17: for every kernel an engine tracks, active_kernel_workgroups is not
\* negative, equals the number of that kernel's workgroups still queued,
\* and is zero exactly when the queue is empty.
C17_CountMatchesQueue ==
    \A a \in ACEs : \A name \in DOMAIN active_kernel_workgroups[a] :
        LET n == active_kernel_workgroups[a][name] IN
        /\ n >= 0
        /\ n = QueuedOf(workgroup_queue[a], name)
        /\ n = 0 <=> workgroup_queue[a] = <<>>

\* C18: break_kernel on an engine that holds no kernel raises the
\* no-kernel-to-break error (ValueError("No kernel to break")) and leaves
\* the workgroup queue, its state and the per-kernel counts unchanged.
C18_BreakIdleFrame ==
    [][\A a \in ACEs :
          (BreakKernel(a) /\ ace_kernel[a] = None)
              => /\ outcome'.exc = "ValueError"
                 /\ workgroup_queue' = workgroup_queue
                 /\ workgroup_queue_state' = workgroup_queue_state
                 /\ active_kernel_workgroups' = active_kernel_workgroups
                 /\ ace_kernel' = ace_kernel]_vars

\* break_kernel was refused on an engine that is idle again after it had
\* run a kernel
C18_Witness ==
    /\ outcome.op = "break_kernel"
    /\ outcome.exc = "ValueError"
    /\ ace_kernel[0] = None
    /\ wavefront_slots[target_cu] # <<>>

---------------------------------------------------------------------------
(* Claim about the choice of the target unit (SpecSPI) *)

\* the units, in scan order, that have room for a whole workgroup
UnitsWithRoom == {c \in CUs : RoomFor(CU(c), wavefront_per_workgroup)}

\* C20: whenever some compute unit has resources for all 4 wavefronts of
\* the workgroup, get_workgroup admits all of them to the first such unit
\* in scan order, even if earlier units are full.
C20_FirstFittingUnit ==
    [][\A k \in Kernels :
          (GetWorkgroup(k) /\ UnitsWithRoom # {})
              => \A i \in 1 .. wavefront_per_workgroup :
                     RegisteredIn(wavefront_slots', Min(UnitsWithRoom),
                                  Wavefront(spi_workgroup', i))]_vars

---------------------------------------------------------------------------
(* Claim about instruction issue (SpecSequencer) *)

\* the wavefronts of the pool issue_instructions selects on unit c
SelectedPool(c) == wavefront_pools[c][current_pool[c]]

\* wavefront w of unit c had its head instruction issued in this step
IssuedIn(c, w) ==
    /\ w \in DOMAIN instruction_buffers[c]
    /\ instruction_buffers[c][w] # <<>>
    /\ instruction_buffers'[c][w] = Tail(instruction_buffers[c][w])
    /\ \E t \in UnitTypes :
           execution_units'[c][t] = <<w, Head(instruction_buffers[c][w])>>

\* wavefront w of unit c was skipped in this step: its buffer is as it was
SkippedIn(c, w) ==
    w \in DOMAIN instruction_buffers[c]
        => instruction_buffers'[c][w] = instruction_buffers[c][w]

---------------------------------------------------------------------------
(* Memory coalescing *)

\* C21: coalesce_memory_requests given the addresses 0, 4, 8, 70, 74, each
\* of size 4, with a transaction size of 64, returns exactly the two
\* transactions (0, 12) and (70, 8).
C21_Scenario ==
    (outcome.op = "coalesce_memory_requests" /\ ta_request = ScenarioBatch)
        => ta_returned = << <<0, 12>>, <<70, 8>> >>

\* C21, amended: address 70 lies within one transaction size of the end of
\* the region [0, 12), so the five requests coalesce into the single
\* transaction (0, 78).
C21_ScenarioOneTransaction ==
    (outcome.op = "coalesce_memory_requests" /\ ta_request = ScenarioBatch)
        => ta_returned = << <<0, 78>> >>

C21_Witness ==
    /\ outcome.op = "coalesce_memory_requests"
    /\ ta_request = ScenarioBatch
    /\ ta_stats.total_requests = Len(ScenarioBatch.addresses)

\* C22: vector_load returns exactly one result per request of the batch,
\* in request order, each as long as its request asked for, whatever the
\* batch.
C22_RoundTrip ==
    outcome.op = "vector_load"
        => /\ outcome.exc = NoExc
           /\ Len(ta_returned) = Len(ta_request.addresses)
           /\ \A i \in 1 .. Len(ta_returned) :
                  Len(ta_returned[i]) = ta_request.sizes[i]

---------------------------------------------------------------------------
(* L2TLB replacement *)

Distinct(s) == \A i, j \in 1 .. Len(s) : s[i] = s[j] => i = j
\* the last n elements of s, or all of s when it is shorter
LastN(s, n) == SubSeq(s, Max2(1, Len(s) - n + 1), Len(s))
InSeq(x, s) == \E i \in 1 .. Len(s) : s[i] = x

\* C23: FIFO replacement.  While the pages inserted are pairwise distinct,
\* the table holds exactly the last `size` of them, oldest first; a lookup
\* then hits exactly on those pages and misses on an evicted one.
C23_FifoEviction ==
    Distinct(tlb_inserted)
        => /\ Keys(tlb_entries) = LastN(tlb_inserted, TlbSize)
           /\ outcome.op = "lookup"
                  => (tlb_returned.hit
                         <=> InSeq(outcome.target \div PageSize,
                                   LastN(tlb_inserted, TlbSize)))

\* one page more than the table holds was inserted, and the first is
\* looked up: it was evicted
C23_Witness ==
    /\ Distinct(tlb_inserted)
    /\ Len(tlb_inserted) = TlbSize + 1
    /\ outcome.op = "lookup"
    /\ outcome.target \div PageSize = tlb_inserted[1]
    /\ ~tlb_returned.hit
    /\ \A i \in 2 .. Len(tlb_inserted) :
           HasKey(tlb_entries, tlb_inserted[i])

---------------------------------------------------------------------------
(* Claims about the cycle loop of a compute unit *)

\* wavefront w is in a pool of the sequencer of unit c
ResidentOn(c, w) ==
    \E p \in PoolIdx : \E i \in 1 .. Len(wavefront_pools[c][p]) :
        wavefront_pools[c][p][i] = w
\* instructions were fetched for w on unit c
FetchedFor(c, w) ==
    /\ w \in DOMAIN program_counters[c]
    /\ program_counters[c][w] > 0
\* an execution unit of c holds an instruction of w
IssuedFor(c, w) ==
    \E t \in UnitTypes :
        /\ execution_units[c][t] # NoIssue
        /\ execution_units[c][t][1] = w

\* C24: while execute_cycle keeps being called, every wavefront resident
\* on the unit eventually has instructions fetched into its buffer and
\* eventually has an instruction issued.
C24_Progress ==
    \A w \in HarnessWavefronts :
        /\ ResidentOn(0, w) ~> FetchedFor(0, w)
        /\ ResidentOn(0, w) ~> IssuedFor(0, w)

---------------------------------------------------------------------------
(* Claims about the workgroup queue of an engine *)

\* the engine holds no kernel
IdleEngine(a) == ace_kernel[a] = None

\* C25: an engine's workgroup_queue never holds more than
\* resource_limits["max_active_workgroups"] workgroups, and receive_kernel
\* on an idle engine queues exactly min(100, max_active_workgroups)
\* workgroups, each of the kernel received.
C25_QueueBounded ==
    /\ [](\A a \in ACEs :
              Len(workgroup_queue[a]) <= max_active_workgroups[a])
    /\ [][\A k \in Kernels :
              (ReceiveKernel(0, k) /\ IdleEngine(0))
                  => /\ Len(workgroup_queue'[0])
                            = Len(workgroup_queue[0])
                                  + Min2(GridWorkgroups,
                                         max_active_workgroups[0])
                     /\ \A i \in Len(workgroup_queue[0]) + 1
                                   .. Len(workgroup_queue'[0]) :
                            workgroup_queue'[0][i].kernel = k.name]_vars

\* the two flags of engine a agree with its kernel and its queue
FlagsAgree(a) ==
    /\ ace_available[a] <=> ace_kernel[a] = None
    /\ workgroup_queue_state[a] = "empty" <=> workgroup_queue[a] = <<>>

\* C26: after every receive_kernel, pass_workgroup and finish_kernel the
\* engine is available iff it holds no kernel, and its queue state is
\* "empty" iff its queue has no elements; pass_workgroup on an engine whose
\* queue state is "empty" changes nothing.
C26_FlagsAgree ==
    /\ [](outcome.op \in {"receive_kernel", "pass_workgroup",
                            "finish_kernel"}
              => \A a \in ACEs : FlagsAgree(a))
    /\ [][((PassWorkgroup(0) \/ PassWorkgroupAccepting(0))
               /\ workgroup_queue_state[0] = "empty")
              => UNCHANGED <<aceVars, cuVars, spi_workgroup>>]_vars

\* engine a is Idle
IdleState(a) ==
    /\ ace_kernel[a] = None
    /\ ace_available[a]
    /\ workgroup_queue_state[a] = "empty"
    /\ workgroup_queue[a] = <<>>

\* C27: once the engine holds a kernel, pass_workgroup calls with an
\* accepting sink eventually drain the queue; the call that empties the
\* queue leaves the engine Idle, with the entry of the kernel it held
\* removed from active_kernel_workgroups.
C27_DrainsToIdle ==
    /\ ~IdleEngine(0) ~> IdleState(0)
    /\ [][(PassWorkgroupAccepting(0)
               /\ workgroup_queue[0] # <<>> /\ workgroup_queue'[0] = <<>>)
              => /\ ace_kernel'[0] = None
                 /\ ace_available'[0]
                 /\ workgroup_queue_state'[0] = "empty"
                 /\ ace_kernel[0] # None
                        => ace_kernel[0].name
                               \notin DOMAIN active_kernel_workgroups'[0]]_vars

\* the engine has received a kernel and handed off all its workgroups
C27_Witness ==
    /\ outcome.op = "pass_workgroup"
    /\ next_wg > ConfiguredWorkgroups
    /\ IdleState(0)
    /\ DOMAIN active_kernel_workgroups[0] = {}

---------------------------------------------------------------------------
(* Claims about pool selection and fetch *)

\* C29: every issue_instructions call moves current_pool on by exactly one,
\* modulo num_pools, whether or not it issued anything, and what it puts
\* into the execution units comes from wavefronts of the pool that was
\* selected when it was called.
C29_RoundRobin ==
    [][\A c \in CUs :
          IssueInstructions(c)
              => /\ current_pool'[c] = (current_pool[c] + 1) % num_pools
                 /\ \A t \in UnitTypes :
                        execution_units'[c][t] # NoIssue
                            => \E i \in 1 .. Len(SelectedPool(c)) :
                                   SelectedPool(c)[i]
                                       = execution_units'[c][t][1]]_vars

\* the positions in wavefront_slots, the unit's list in admission order, of
\* the wavefronts resident in the sequencer of unit c
ResidentSlots(c) ==
    {i \in 1 .. Len(wavefront_slots[c]) :
        ResidentOn(c, wavefront_slots[c][i])}
EarliestAdmitted(c) == wavefront_slots[c][Min(ResidentSlots(c))]

\* C30: a fetch_instructions call on a unit with resident wavefronts
\* appends at most 4 instructions to the buffer of the earliest-admitted
\* resident wavefront and advances its program counter by the number
\* appended; the buffers and program counters of the other wavefronts are
\* unchanged.
C30_FetchEarliest ==
    [][\A c \in CUs :
          (FetchInstructions(c) /\ ResidentSlots(c) # {})
              => LET w == EarliestAdmitted(c)
                     fetched == Len(instruction_buffers'[c][w])
                                    - Len(instruction_buffers[c][w])
                 IN  /\ w \in DOMAIN instruction_buffers[c]
                     /\ w \in DOMAIN program_counters[c]
                     /\ fetched \in 0 .. 4
                     /\ SubSeq(instruction_buffers'[c][w], 1,
                               Len(instruction_buffers[c][w]))
                            = instruction_buffers[c][w]
                     /\ program_counters'[c][w]
                            = program_counters[c][w] + fetched
                     /\ \A v \in DOMAIN instruction_buffers[c] \ {w} :
                            instruction_buffers'[c][v]
                                = instruction_buffers[c][v]
                     /\ \A v \in DOMAIN program_counters[c] \ {w} :
                            program_counters'[c][v] = program_counters[c][v]
      ]_vars


\* C31: on every instruction fetch, in every configuration of the hierarchy,
\* l1i_accesses grows by one exactly when the L1I is probed and l1i_misses
\* exactly when that probe misses (also with no L2 attached), l2_accesses
\* exactly when the L2 is probed, and l2_misses exactly when that probe
\* misses.
C31_CountersFollowProbes ==
    [][outcome'.op = "_fetch_from_memory_hierarchy" =>
         /\ l1i_accesses'[0] - l1i_accesses[0] =
                (IF probes'.l1 # NotProbed THEN 1 ELSE 0)
         /\ l1i_misses'[0] - l1i_misses[0] =
                (IF probes'.l1 = "miss" THEN 1 ELSE 0)
         /\ l2_accesses'[0] - l2_accesses[0] =
                (IF probes'.l2 # NotProbed THEN 1 ELSE 0)
         /\ l2_misses'[0] - l2_misses[0] =
                (IF probes'.l2 = "miss" THEN 1 ELSE 0)]_vars


\* the places wavefront w takes in the pools of unit c
PlacesOf(c, w) ==
    {<<p, i>> \in PoolIdx \X (1 .. slots_per_pool + 1) :
        /\ i <= Len(wavefront_pools[c][p])
        /\ wavefront_pools[c][p][i] = w}

\* C32: in every reachable state no pool holds more than slots_per_pool
\* (10) wavefronts, each resident wavefront is in exactly one pool, once,
\* and a wavefront has an instruction buffer, a program counter and an
\* executing flag iff it is in a pool.
C32_PoolBookkeeping ==
    \A c \in CUs :
        /\ \A p \in PoolIdx : Len(wavefront_pools[c][p]) <= slots_per_pool
        /\ \A w \in HarnessWavefronts :
              /\ Cardinality(PlacesOf(c, w)) <= 1
              /\ ResidentOn(c, w) <=>
                     /\ w \in DOMAIN instruction_buffers[c]
                     /\ w \in DOMAIN program_counters[c]
                     /\ w \in DOMAIN executing_wavefronts[c]


\* the unit in the state the instruction started last requires
SimdCyclesAsStarted ==
    simd_trace.started =>
        LET n == Len(simd_trace.returns) IN
        /\ \A i \in 1 .. n : i <= 4 => (simd_trace.returns[i] <=> i = 4)
        /\ simd.busy <=> n < 4
        /\ simd.instructions_executed =
               simd_trace.executed + (IF n < 4 THEN 0 ELSE 1)

\* C33: an instruction occupies a SIMD unit for exactly 4 cycles.  After a
\* successful start_execution, execute_cycle returns false on the first
\* three calls and true on the fourth, the unit is busy throughout and idle
\* afterwards, and instructions_executed has grown by one; start_execution
\* on a busy unit returns false and changes none of the unit's fields.
C33_FourCycles ==
    [][/\ SimdCyclesAsStarted'
       /\ outcome'.op = "start_execution" /\ simd.busy =>
              outcome'.ret = "False" /\ simd' = simd]_vars

\* an instruction was started, refused a second start while busy, and
\* completed on the fourth cycle, the unit having completed one before
C33_Witness ==
    /\ simd_trace.started
    /\ simd_trace.refused = 1
    /\ Len(simd_trace.returns) = 4
    /\ simd_trace.returns[4]
    /\ simd_trace.executed = 1


\* the requests of the batch as (address, size) pairs
RequestsOf(batch) ==
    {<<batch.addresses[r], batch.sizes[r]>> :
        r \in 1 .. Len(batch.addresses)}
MaxOf(S) == CHOOSE x \in S : \A y \in S : y <= x
\* the addresses at which a request lies more than one transaction size
\* past the end of everything requested below it, and the lowest address
StartsOf(batch) ==
    {rq[1] : rq \in
        {rq \in RequestsOf(batch) :
            LET below == {b \in RequestsOf(batch) : b[1] < rq[1]}
            IN  \/ below = {}
                \/ rq[1] > MaxOf({b[1] + b[2] : b \in below})
                              + transaction_size}}
\* request rq lies inside transaction t
Inside(rq, t) == t[1] <= rq[1] /\ rq[1] + rq[2] <= t[1] + t[2]

\* C34: for a non-empty batch coalesce_memory_requests returns transactions
\* in strictly ascending start order, pairwise disjoint; every request range
\* [address, address + size) lies inside exactly one of them; and the
\* transactions start exactly at the lowest request and at every request
\* whose start lies more than transaction_size past the end of the region
\* merged before it.  An empty batch returns no transactions.
C34_Coalesced ==
    outcome.op = "coalesce_memory_requests" =>
        LET T == ta_returned IN
        IF ta_request.addresses = <<>> THEN T = <<>>
        ELSE /\ \A i \in 1 .. Len(T) - 1 :
                   T[i][1] < T[i + 1][1] /\ T[i][1] + T[i][2] <= T[i + 1][1]
             /\ \A rq \in RequestsOf(ta_request) :
                   Cardinality({i \in 1 .. Len(T) : Inside(rq, T[i])}) = 1
             /\ {T[i][1] : i \in 1 .. Len(T)} = StartsOf(ta_request)

\* three requests were coalesced into two transactions: one merge and one
\* new transaction
C34_Witness ==
    /\ outcome.op = "coalesce_memory_requests"
    /\ Len(ta_request.addresses) = 3
    /\ Len(ta_returned) = 2


\* the step inserted virtual address va with some physical address, whose
\* page is then the mapping of va's page
InsertedPage(va) ==
    \E pa \in PhysicalAddresses :
        /\ tlb_entries' = insert(tlb_entries, va, pa)
        /\ HasKey(tlb_entries', va \div PageSize)
        /\ Value(tlb_entries', va \div PageSize) = pa \div PageSize
\* the step looked va up: a hit with the translation through the resident
\* mapping, or a miss with no translation when the page is not resident
LookedUp(va) ==
    LET vpn == va \div PageSize IN
    /\ tlb_entries' = tlb_entries
    /\ access_count' = access_count + 1
    /\ IF HasKey(tlb_entries, vpn)
       THEN /\ tlb_returned'.hit
            /\ tlb_returned'.physical_address =
                   (Value(tlb_entries, vpn) * PageSize) + (va % PageSize)
            /\ hit_count' = hit_count + 1 /\ miss_count' = miss_count
       ELSE /\ ~tlb_returned'.hit
            /\ tlb_returned'.physical_address = NoAddress
            /\ hit_count' = hit_count /\ miss_count' = miss_count + 1

\* C35: L2TLB translation round trip.  insert(va, pa) leaves va's page
\* mapped to pa's page; a lookup of an address on a resident page hits and
\* returns (mapped page) * page_size + (address mod page_size); a lookup of
\* a page that is not resident returns no translation and hit status false;
\* every lookup adds one to access_count and to exactly one of hit_count
\* and miss_count, so hit_count + miss_count = access_count, and it leaves
\* the entry table unchanged.
C35_Translation ==
    [][/\ outcome'.op = "insert" => InsertedPage(outcome'.target)
       /\ outcome'.op = "lookup" => LookedUp(outcome'.target)
       /\ hit_count' + miss_count' = access_count']_vars

\* a lookup off the start of a page hit and was translated into the second
\* physical page, after an earlier lookup missed
C35_Witness ==
    /\ outcome.op = "lookup"
    /\ tlb_returned.hit
    /\ outcome.target % PageSize # 0
    /\ tlb_returned.physical_address =
           PageSize + (outcome.target % PageSize)
    /\ miss_count = 1


\* the pages resident before the step and not after it
ResidentPages(entries) == {entries[i][1] : i \in 1 .. Len(entries)}
EvictedPages == ResidentPages(tlb_entries) \ ResidentPages(tlb_entries')

\* C36: the L2TLB table is bounded and evicts only on overflow.  The number
\* of entries never exceeds size; insert removes a resident page only when
\* adding the new entry would otherwise exceed size, and then only one; so
\* re-inserting a resident page evicts no resident page.
C36_EvictsOnOverflow ==
    [][/\ Len(tlb_entries') <= TlbSize
       /\ outcome'.op = "insert" =>
              LET vpn == outcome'.target \div PageSize
                  needed == IF HasKey(tlb_entries, vpn)
                            THEN Len(tlb_entries)
                            ELSE Len(tlb_entries) + 1
              IN  /\ Cardinality(EvictedPages) <= 1
                  /\ EvictedPages # {} => needed > TlbSize]_vars


\* how often wavefront w is registered in the slot list of unit c
TimesRegistered(c, w) ==
    Cardinality({i \in 1 .. Len(wavefront_slots[c]) :
                    wavefront_slots[c][i] = w})
\* the four ledger counters of a unit state
Ledger(u) == <<Len(u.slots), u.sgpr, u.vgpr, u.lds>>
\* allocating w on unit state u while it has the resources, then freeing it
AllocatedThenFreed(u, w) ==
    free_resources(allocate_resources(u, w).cu, w).cu

\* C37: the ledger mirrors residency.  In every reachable state of a
\* compute unit used_sgpr = 32 * n, used_vgpr = 64 * n and used_lds =
\* 2048 * n with n = len(wavefront_slots), no counter is negative, the
\* wavefronts in the sequencer pools are those of the slot list, and
\* allocating a wavefront and then freeing it gives back the four counters
\* as they were.
C37_LedgerMirrors ==
    \A c \in CUs :
        LET n == Len(wavefront_slots[c]) IN
        /\ used_sgpr[c] = 32 * n
        /\ used_vgpr[c] = 64 * n
        /\ used_lds[c] = 2048 * n
        /\ used_sgpr[c] >= 0 /\ used_vgpr[c] >= 0 /\ used_lds[c] >= 0
        /\ \A w \in HarnessWavefronts :
              /\ Cardinality(PlacesOf(c, w)) = TimesRegistered(c, w)
              /\ has_resources_for_wavefront(CU(c)) =>
                     Ledger(AllocatedThenFreed(CU(c), w)) = Ledger(CU(c))
        /\ \A p \in PoolIdx : \A i \in 1 .. Len(wavefront_pools[c][p]) :
              wavefront_pools[c][p][i] \in HarnessWavefronts

\* a wavefront was freed on a unit that still holds two others
C37_Witness ==
    /\ outcome.op = "free_resources"
    /\ Len(wavefront_slots[0]) = 2
    /\ used_lds[0] = 4096
    /\ Cardinality(UNION {PlacesOf(0, w) : w \in HarnessWavefronts}) = 2


\* the step stored some data at address a and changed no byte outside
\* [a, a + len(data))
StoredInPlace(a) ==
    \E data \in DataStrings :
        \A i \in 1 .. Len(dram_storage) :
            /\ i <= Len(dram_storage')
            /\ dram_storage'[i] =
                  IF a <= i - 1 /\ i - 1 < a + Len(data)
                  THEN data[i - a] ELSE dram_storage[i]

\* C38: the DRAM store keeps its fixed capacity.  After every load, store,
\* vector_load and vector_store call, successful or failing, len(storage)
\* equals capacity, and a successful store changes only the bytes in
\* [address, address + len(data)).
C38_FixedCapacity ==
    [][/\ Len(dram_storage') = DramCapacity
       /\ outcome'.op = "store" /\ outcome'.exc = NoExc =>
              StoredInPlace(outcome'.target)]_vars


\* C39: at the end of every ComputeUnit.execute_cycle call no resident
\* wavefront is marked executing, and cycle_count has grown by exactly one.
C39_CycleCompletes ==
    [][outcome'.op = "execute_cycle" =>
         LET c == outcome'.target IN
         /\ cycle_count'[c] = cycle_count[c] + 1
         /\ \A w \in DOMAIN executing_wavefronts'[c] :
               ~executing_wavefronts'[c][w]]_vars

===========================================================================
